---- MODULE Spec2Model ----
(***************************************************************************)
(* Polifolio: the periodic portfolio valuation and analytics pipeline.     *)
(*                                                                         *)
(* The module models four parts of the backend, each with its own          *)
(* specification over the same variables:                                  *)
(*   SpecScheduler  the APScheduler instance of services/stock_service.py  *)
(*                  with its two interval jobs (max_instances = 1);        *)
(*   SpecRefresh    update_stock_prices / StockService of                  *)
(*                  services/stock_service.py, one asyncio task per symbol *)
(*                  on one shared AsyncSession;                            *)
(*   SpecPortfolio  get_user_portfolio (services/portfolio_service.py,     *)
(*                  api/routes.py and routes.py) over a Price Store filled *)
(*                  by the refresh job of tasks.py;                        *)
(*   SpecHistory    one run of update_portfolio_history of                 *)
(*                  services/portfolio_service.py over a Price Store       *)
(*                  filled by the refresh job of tasks.py before the run.  *)
(*                                                                         *)
(* Money is held as an integer number of 1/10000 currency units, so that   *)
(* round(x, 3) and round(x, 2) are real roundings.  Binary floating point  *)
(* noise below that resolution is not modelled.                            *)
(***************************************************************************)
EXTENDS Integers, Sequences, FiniteSets, TLC

VARIABLES
    \* ---- tables of the relational store (models/user.py)
    stocks,             \* table "stocks": sequence of holdings, in id order
    stock_prices,       \* table "stock_prices": sequence of rows, in id order
    portfolio_history,  \* table "portfolio_history": sequence of records
    \* ---- the scheduler (APScheduler, configured in stock_service.py)
    instances,          \* job id -> number of running instances
    fires,              \* job id -> number of trigger fires so far
    skipped,            \* job id -> fires refused because an instance runs
    lastEvent,          \* job id -> last scheduler event of the job
    \* ---- one run of update_stock_prices (stock_service.py)
    rpc,                \* position of the job coroutine
    tasks,              \* the gathered update_stock_price tasks
    updated_symbols,    \* StockService.updated_symbols
    pending,            \* uncommitted changes held by the run's session
    fetchCount,         \* symbol -> Gateway price fetches in this run
    rlog,               \* log records written by the run
    \* ---- one run of update_portfolio_history (portfolio_service.py)
    hpc,                \* position of the job coroutine
    husers,             \* the users enumerated by the run
    hidx,               \* index of the next user to process
    hpending,           \* history records added to the session, uncommitted
    hlog,               \* log records written by the run
    hseen,              \* per processed user: how the user's turn ended
    \* ---- the synchronous query path
    resp,               \* the last response of the query path
    req,                \* the request that response answers
    \* ---- the surroundings of the program
    gateway,            \* symbol -> what the provider answers for it
    observed,           \* what an observer of the Price Store last saw
    client,             \* what the last call of the frontend gave its caller
    \* ---- configuration and time
    settings,           \* the interval options and the derived grace period
    jobconf,            \* job id -> the options the job was added with
    clock,              \* the wall clock, in seconds
    next_run_time,      \* job id -> the next fire time of the job's trigger
    executed            \* job id -> the fire times of the job's latest run

schedVars   == <<instances, fires, skipped, lastEvent>>
tableVars   == <<stocks, stock_prices, portfolio_history>>
refreshVars == <<rpc, tasks, updated_symbols, pending, fetchCount, rlog>>
historyVars == <<hpc, husers, hidx, hpending, hlog, hseen>>
queryVars   == <<resp, req>>
envVars     == <<gateway, observed, client>>
timeVars    == <<settings, jobconf, clock, next_run_time, executed>>
vars == <<stocks, stock_prices, portfolio_history,
          instances, fires, skipped, lastEvent,
          rpc, tasks, updated_symbols, pending, fetchCount, rlog,
          hpc, husers, hidx, hpending, hlog, hseen,
          resp, req, gateway, observed, client,
          settings, jobconf, clock, next_run_time, executed>>

(***************************************************************************)
(* Bounds of the model.                                                    *)
(***************************************************************************)
NumUsers    == 2    \* users 1..NumUsers exist in table "users"
MaxHoldings == 2    \* rows of table "stocks"
MaxFires    == 3    \* trigger fires per job in SpecScheduler

Symbols == {"AAPL", "MSFT"}
UserIds == 1..NumUsers
None    == "None"

(***************************************************************************)
(* Generic helpers.                                                        *)
(***************************************************************************)
Range(s) == {s[i] : i \in DOMAIN s}

RECURSIVE SeqSum(_)
SeqSum(s) == IF s = <<>> THEN 0 ELSE Head(s) + SeqSum(Tail(s))

SelectIdx(s, Test(_)) == {i \in DOMAIN s : Test(s[i])}

(***************************************************************************)
(* Initial values of each group of variables.                              *)
(***************************************************************************)
JobIds == {"update_stock_prices", "update_portfolio_history"}

InitScheduler ==
    /\ instances = [j \in JobIds |-> 0]
    /\ fires     = [j \in JobIds |-> 0]
    /\ skipped   = [j \in JobIds |-> 0]
    /\ lastEvent = [j \in JobIds |-> None]

InitRefreshJob ==
    /\ rpc = "idle"
    /\ tasks = <<>>
    /\ updated_symbols = {}
    /\ pending = <<>>
    /\ fetchCount = [s \in Symbols |-> 0]
    /\ rlog = {}

InitHistoryJob ==
    /\ hpc = "idle"
    /\ husers = <<>>
    /\ hidx = 0
    /\ hpending = <<>>
    /\ hlog = {}
    /\ hseen = <<>>

\* A request of the query path: the operation, the current user, the
\* symbol asked for, and for the history the days and the time of the call.
Request(op, u, s, days, now) ==
    [op |-> op, user |-> u, symbol |-> s, days |-> days, now |-> now,
     via |-> None, db |-> TRUE, caller |-> 0]

\* The request as the module `via` handled it; db: the database answered
\* every query of the handler.
Via(r, module, ok) == [r EXCEPT !.via = module, !.db = ok]
\* The request r made with a token of user current (0: no valid token).
CalledBy(r, current) == [r EXCEPT !.caller = current]

InitResponse ==
    /\ resp = [status |-> 0, user_id |-> 0, portfolio |-> <<>>, by |-> None, seen |-> <<>>]
    /\ req = Request(None, 0, None, 0, 0)

\* What a function of the frontend gives its caller: a value returned (the
\* JSON body as <<body>>, Python's None as <<>>) or an exception raised;
\* failure is what happened to the HTTP request underneath.
CallResult(call, failure, raised, value) ==
    [call |-> call, failure |-> failure, raised |-> raised, value |-> value]

InitClient == client = CallResult(None, None, FALSE, <<>>)

\* Where the provider is not fixed beforehand every fetch draws its own
\* outcome, and gateway holds an answer nothing reads.
\* The Settings object: the two interval options and the derived grace
\* period, which the class declares as 0.
Settings(stock, history) ==
    [STOCK_PRICES_INTERVAL_UPDATES_SECONDS |-> stock,
     PORTFOLIO_HISTORY_UPDATE_INTERVAL_SECONDS |-> history,
     MISFIRE_GRACE_TIME_SECONDS |-> 0,
     by |-> None]

\* The options of a job: add_job(trigger=IntervalTrigger(seconds=interval),
\* coalesce, misfire_grace_time).
JobOptions(isAdded, interval, coalesce, grace) ==
    [added |-> isAdded, interval |-> interval, coalesce |-> coalesce,
     misfire_grace_time |-> grace]

NotAdded == JobOptions(FALSE, 1, TRUE, 0)

\* Where time is not followed the clock stands still and no job is added.
InitUntimed ==
    /\ jobconf = [j \in JobIds |-> NotAdded]
    /\ clock = 0
    /\ next_run_time = [j \in JobIds |-> 0]
    /\ executed = [j \in JobIds |-> {}]

InitEnv ==
    /\ gateway = [s \in Symbols |-> [kind |-> "empty", close |-> 0]]
    /\ observed = <<>>
    /\ InitClient
    /\ settings = Settings(1, 1)
    /\ InitUntimed

InitQuery == InitResponse /\ InitEnv

InitEmptyTables ==
    /\ stocks = <<>>
    /\ stock_prices = <<>>
    /\ portfolio_history = <<>>

(***************************************************************************)
(* The scheduler.  stock_service.py registers both jobs on one             *)
(* AsyncIOScheduler with max_instances=1.  On a trigger fire the           *)
(* scheduler submits the job to its executor, which refuses the            *)
(* submission (MaxInstancesReachedError, logged, the fire is skipped)      *)
(* when the job already has max_instances running instances, and           *)
(* otherwise counts one more instance and runs the job coroutine.  When    *)
(* the coroutine returns or raises, the executor counts the instance out   *)
(* and reports the outcome to the listeners.                               *)
(***************************************************************************)
max_instances == 1

\* A variant: the jobs registered with max_instances=2.
MaxInstances_Two(j) == max_instances + 1

MaxInstances(j) == max_instances

\* A trigger fire of job j.
Fire(j) ==
    /\ fires[j] < MaxFires
    /\ fires' = [fires EXCEPT ![j] = @ + 1]
    /\ IF instances[j] >= MaxInstances(j)
       THEN /\ skipped' = [skipped EXCEPT ![j] = @ + 1]
            /\ lastEvent' = [lastEvent EXCEPT ![j] = "max_instances"]
            /\ UNCHANGED instances
       ELSE /\ instances' = [instances EXCEPT ![j] = @ + 1]
            /\ lastEvent' = [lastEvent EXCEPT ![j] = "submitted"]
            /\ UNCHANGED skipped
    /\ UNCHANGED <<tableVars, refreshVars, historyVars, queryVars, envVars, timeVars>>

\* The job coroutine of a running instance of j returns normally.
JobReturns(j) ==
    /\ instances[j] > 0
    /\ instances' = [instances EXCEPT ![j] = @ - 1]
    /\ lastEvent' = [lastEvent EXCEPT ![j] = "executed"]
    /\ UNCHANGED <<fires, skipped, tableVars, refreshVars, historyVars, queryVars, envVars, timeVars>>

\* The job coroutine of a running instance of j raises.
\* A variant: a run that raises keeps its instance slot.
JobRaises_KeepsInstance(j) ==
    /\ instances[j] > 0
    /\ lastEvent' = [lastEvent EXCEPT ![j] = "error"]
    /\ UNCHANGED <<instances, fires, skipped, tableVars, refreshVars, historyVars,
                   queryVars, envVars, timeVars>>

JobRaises(j) ==
    /\ instances[j] > 0
    /\ instances' = [instances EXCEPT ![j] = @ - 1]
    /\ lastEvent' = [lastEvent EXCEPT ![j] = "error"]
    /\ UNCHANGED <<fires, skipped, tableVars, refreshVars, historyVars, queryVars, envVars, timeVars>>

(***************************************************************************)
(* Numbers.  An amount is an integer count of 1/10000 units.  round(x, n)  *)
(* of Python rounds to the nearest multiple of 10^-n, a tie to the even    *)
(* multiple.                                                               *)
(***************************************************************************)
RoundHalfEven(x, m) ==
    LET q == x \div m
        r == x % m
    IN  IF 2 * r < m THEN q
        ELSE IF 2 * r > m THEN q + 1
        ELSE IF q % 2 = 0 THEN q ELSE q + 1

Round3(x) == 10 * RoundHalfEven(x, 10)      \* round(x, 3)
Round2(x) == 100 * RoundHalfEven(x, 100)    \* round(x, 2)

(***************************************************************************)
(* The tables.  A holding is a row of "stocks"; a price snapshot is a row  *)
(* of "stock_prices", whose symbol column is not unique.  ts is a logical  *)
(* timestamp: a row written later carries a larger one.                    *)
(***************************************************************************)
Holding(u, s, q, pp) ==
    [user_id |-> u, symbol |-> s, quantity |-> q, purchase_price |-> pp]

StockPrice(s, p, t) == [symbol |-> s, price |-> p, ts |-> t]

SymRank(s) == IF s = "AAPL" THEN 1 ELSE 2
HoldKey(h) == 10 * h.user_id + SymRank(h.symbol)

\* The tables of at most MaxHoldings holdings drawn from H, rows in key order.
HoldingTables(H) ==
    UNION {{t \in [1..n -> H] :
                \A i \in 1..n : i < n => HoldKey(t[i]) <= HoldKey(t[i + 1])} :
           n \in 0..MaxHoldings}

RowsOf(table, s) == {i \in DOMAIN table : table[i].symbol = s}

MaxTs(table) ==
    IF table = <<>> THEN 0
    ELSE CHOOSE t \in {table[i].ts : i \in DOMAIN table} :
             \A i \in DOMAIN table : table[i].ts <= t

\* Timestamps are logical: only the order among the rows of one symbol is
\* kept (every query of the code filters by symbol), as ranks 1, 2, ...
Normalise(table) ==
    [i \in DOMAIN table |->
        [table[i] EXCEPT !.ts =
            1 + Cardinality({table[k].ts : k \in {j \in DOMAIN table :
                                 /\ table[j].symbol = table[i].symbol
                                 /\ table[j].ts < table[i].ts}})]]

\* The row of symbol s a query ordered by timestamp descending returns first
\* (rows written in one flush are stamped in id order).
LatestRow(table, s) ==
    CHOOSE i \in RowsOf(table, s) :
        \A k \in RowsOf(table, s) :
            \/ table[k].ts < table[i].ts
            \/ table[k].ts = table[i].ts /\ k <= i

HasPrice(table, s) == RowsOf(table, s) # {}

RECURSIVE SetToSeq(_)
SetToSeq(S) ==
    IF S = {} THEN <<>>
    ELSE LET x == CHOOSE y \in S : \A z \in S : SymRank(y) <= SymRank(z)
         IN  <<x>> \o SetToSeq(S \ {x})

(***************************************************************************)
(* The Gateway: yfinance.  A price fetch returns the last daily close, or  *)
(* an empty frame, or raises.                                              *)
(***************************************************************************)
MaxClose == 6
RawCloses == 0..MaxClose
FetchOutcomes ==
    {[kind |-> "close", close |-> c] : c \in RawCloses}
        \cup {[kind |-> k, close |-> 0] : k \in {"empty", "error"}}

\* An Optional[float]: <<p>> is the price p, <<>> is Python's None.
NoPrice == <<>>
Some(p) == <<p>>

\* StockService.fetch_stock_price: the rounded close, or None.
fetch_stock_price(r) ==
    IF r.kind = "close" THEN Some(Round3(r.close)) ELSE NoPrice

\* The log record fetch_stock_price writes for symbol s.
FetchLog(s, r) ==
    IF r.kind = "close" THEN <<"info", "Received price", s>>
    ELSE IF r.kind = "empty" THEN <<"warning", "No price data received", s>>
    ELSE <<"error", "Error fetching price", s>>

(***************************************************************************)
(* The refresh job: update_stock_prices and StockService                   *)
(* (services/stock_service.py).  The job coroutine and the gathered        *)
(* update_stock_price tasks share one AsyncSession; each action is the     *)
(* code between two suspension points.                                     *)
(***************************************************************************)
Task(s, pc, p) == [symbol |-> s, pc |-> pc, price |-> p]

RefreshEnded == rpc \in {"returned", "raised"}
TasksQuiet == \A i \in DOMAIN tasks : tasks[i].pc \in {"done", "raised"}

\* A variant: the symbols query without DISTINCT: one symbol per holding.
DistinctSymbols_NoDistinct(table) == [i \in DOMAIN table |-> table[i].symbol]

\* select(Stock.symbol).distinct()
DistinctSymbols(table) == SetToSeq({table[i].symbol : i \in DOMAIN table})

\* The first segment of update_stock_price(stock): the dedup test, then the
\* Gateway fetch is started.
StartTask(s, updated) ==
    IF s \in updated THEN Task(s, "done", NoPrice) ELSE Task(s, "fetching", NoPrice)

\* A variant: an update adds the fetched price to the stored one.
RECURSIVE ApplyPending_Accumulate(_, _)
ApplyPending_Accumulate(ops, table) ==
    IF ops = <<>> THEN Normalise(table)
    ELSE LET o == Head(ops)
             t == MaxTs(table) + 1
         IN  ApplyPending_Accumulate(Tail(ops),
                 IF o.op = "insert"
                 THEN Append(table, StockPrice(o.symbol, o.price, t))
                 ELSE [table EXCEPT ![o.row] =
                          StockPrice(o.symbol, table[o.row].price + o.price, t)])

\* A variant: an update is written as one more row of the symbol.
RECURSIVE ApplyPending_InsertOnly(_, _)
ApplyPending_InsertOnly(ops, table) ==
    IF ops = <<>> THEN Normalise(table)
    ELSE LET o == Head(ops)
             t == MaxTs(table) + 1
         IN  ApplyPending_InsertOnly(Tail(ops),
                 Append(table, StockPrice(o.symbol, o.price, t)))

\* The session's commit: every pending change reaches the table.
RECURSIVE ApplyPending(_, _)
ApplyPending(ops, table) ==
    IF ops = <<>> THEN Normalise(table)
    ELSE LET o == Head(ops)
             t == MaxTs(table) + 1
         IN  ApplyPending(Tail(ops),
                 IF o.op = "insert"
                 THEN Append(table, StockPrice(o.symbol, o.price, t))
                 ELSE [table EXCEPT ![o.row] = StockPrice(o.symbol, o.price, t)])

\* The scheduler calls update_stock_prices(): a session is opened, a new
\* StockService is built, the query for the symbols is sent.
RefreshStart ==
    /\ rpc \in {"idle", "returned", "raised"}
    /\ TasksQuiet
    /\ rpc' = "enum"
    /\ tasks' = <<>>
    /\ updated_symbols' = {}
    /\ pending' = <<>>
    /\ fetchCount' = [s \in Symbols |-> 0]
    /\ rlog' = {<<"info", "Starting stock price update", None>>}
    /\ UNCHANGED <<tableVars, schedVars, historyVars, queryVars, envVars, timeVars>>

\* The symbols query returns (ok) or raises.  On return asyncio.gather wraps
\* one update_stock_price per symbol in a task; every task runs its first
\* segment before any fetch can complete.
RefreshEnumReturn(ok) ==
    /\ rpc = "enum"
    /\ IF ok
       THEN LET syms == DistinctSymbols(stocks)
                started == [i \in DOMAIN syms |-> StartTask(syms[i], updated_symbols)]
            IN  /\ tasks' = started
                /\ fetchCount' =
                       [s \in Symbols |->
                           fetchCount[s] + Cardinality(
                               {i \in DOMAIN started :
                                   started[i].symbol = s /\ started[i].pc = "fetching"})]
                /\ rlog' = rlog \cup {<<"info", "Found unique stocks to update", None>>}
                /\ rpc' = "gather"
       ELSE /\ rlog' = rlog \cup {<<"error", "Error during stock price update", None>>}
            /\ rpc' = "closing"
            /\ UNCHANGED <<tasks, fetchCount>>
    /\ UNCHANGED <<updated_symbols, pending,
                   tableVars, schedVars, historyVars, queryVars, envVars, timeVars>>

\* A variant: a failed fetch raises out of update_stock_price.
TaskAfterFetch_Raises(t, p) ==
    IF p # NoPrice THEN Task(t.symbol, "selecting", p) ELSE Task(t.symbol, "raised", NoPrice)

\* update_stock_price after the fetch: a price goes on to _save_stock_price
\* (the select for the existing row is sent), no price ends the task.
TaskAfterFetch(t, p) ==
    IF p # NoPrice THEN Task(t.symbol, "selecting", p) ELSE Task(t.symbol, "done", NoPrice)

\* The Gateway answers task i with outcome r.
FetchReturn(i, r) ==
    /\ i \in DOMAIN tasks
    /\ tasks[i].pc = "fetching"
    /\ tasks' = [tasks EXCEPT ![i] = TaskAfterFetch(tasks[i], fetch_stock_price(r))]
    /\ rlog' = rlog \cup {FetchLog(tasks[i].symbol, r)}
    /\ UNCHANGED <<rpc, updated_symbols, pending, fetchCount,
                   tableVars, schedVars, historyVars, queryVars, envVars, timeVars>>

SaveError(s) == <<"error", "Error saving stock price", s>>

\* _save_stock_price after the select: scalar_one_or_none() raises on several
\* rows; one row is overwritten, no row makes a new StockPrice; then the
\* commit is sent.  An exception is logged and the rollback is sent.
SelectReturn(i, ok) ==
    /\ i \in DOMAIN tasks
    /\ tasks[i].pc = "selecting"
    /\ LET s == tasks[i].symbol
           rows == RowsOf(stock_prices, s)
       IN  IF ok /\ Cardinality(rows) <= 1
           THEN /\ pending' = Append(pending,
                       IF rows # {}
                       THEN [op |-> "update", row |-> CHOOSE k \in rows : TRUE,
                             symbol |-> s, price |-> tasks[i].price[1]]
                       ELSE [op |-> "insert", row |-> 0,
                             symbol |-> s, price |-> tasks[i].price[1]])
                /\ rlog' = rlog \cup
                       {IF rows # {} THEN <<"info", "Updated price", s>>
                                     ELSE <<"info", "Added new price entry", s>>}
                /\ tasks' = [tasks EXCEPT ![i].pc = "committing"]
           ELSE /\ rlog' = rlog \cup {SaveError(s)}
                /\ tasks' = [tasks EXCEPT ![i].pc = "rollingback"]
                /\ UNCHANGED pending
    /\ UNCHANGED <<rpc, updated_symbols, fetchCount,
                   tableVars, schedVars, historyVars, queryVars, envVars, timeVars>>

\* The commit of task i returns: the session's pending changes are in the
\* table and update_stock_price marks the symbol; or it raises.
CommitReturn(i, ok) ==
    /\ i \in DOMAIN tasks
    /\ tasks[i].pc = "committing"
    /\ IF ok
       THEN /\ stock_prices' = ApplyPending(pending, stock_prices)
            /\ pending' = <<>>
            /\ updated_symbols' = updated_symbols \cup {tasks[i].symbol}
            /\ tasks' = [tasks EXCEPT ![i].pc = "done"]
            /\ UNCHANGED rlog
       ELSE /\ rlog' = rlog \cup {SaveError(tasks[i].symbol)}
            /\ tasks' = [tasks EXCEPT ![i].pc = "rollingback"]
            /\ UNCHANGED <<stock_prices, pending, updated_symbols>>
    /\ UNCHANGED <<rpc, fetchCount, stocks, portfolio_history,
                   schedVars, historyVars, queryVars, envVars, timeVars>>

\* The rollback of task i returns: the session has dropped every pending
\* change; _save_stock_price returns and update_stock_price marks the symbol.
\* A rollback that raises leaves update_stock_price through the exception.
RollbackReturn(i, ok) ==
    /\ i \in DOMAIN tasks
    /\ tasks[i].pc = "rollingback"
    /\ pending' = <<>>
    /\ IF ok
       THEN /\ updated_symbols' = updated_symbols \cup {tasks[i].symbol}
            /\ tasks' = [tasks EXCEPT ![i].pc = "done"]
       ELSE /\ tasks' = [tasks EXCEPT ![i].pc = "raised"]
            /\ UNCHANGED updated_symbols
    /\ UNCHANGED <<rpc, fetchCount, rlog,
                   tableVars, schedVars, historyVars, queryVars, envVars, timeVars>>

RunCompleted == <<"info", "Stock price update completed successfully", None>>
RunError     == <<"error", "Error during stock price update", None>>

\* The end-of-run record of update_stock_prices: every gathered task has
\* returned, whatever each symbol's fetch or save did.
GatherLog(ts) == RunCompleted

\* asyncio.gather returns: every task has finished without raising.
GatherReturns ==
    /\ rpc = "gather"
    /\ \A i \in DOMAIN tasks : tasks[i].pc = "done"
    /\ rlog' = rlog \cup {GatherLog(tasks)}
    /\ rpc' = "closing"
    /\ UNCHANGED <<tasks, updated_symbols, pending, fetchCount,
                   tableVars, schedVars, historyVars, queryVars, envVars, timeVars>>

\* asyncio.gather raises the first exception of a task; the other tasks are
\* not cancelled.
GatherRaises ==
    /\ rpc = "gather"
    /\ \E i \in DOMAIN tasks : tasks[i].pc = "raised"
    /\ rlog' = rlog \cup {RunError}
    /\ rpc' = "closing"
    /\ UNCHANGED <<tasks, updated_symbols, pending, fetchCount,
                   tableVars, schedVars, historyVars, queryVars, envVars, timeVars>>

\* finally: db.close() returns, or raises out of the job.
RefreshClose(ok) ==
    /\ rpc = "closing"
    /\ rpc' = IF ok THEN "returned" ELSE "raised"
    /\ pending' = <<>>
    /\ UNCHANGED <<tasks, updated_symbols, fetchCount, rlog,
                   tableVars, schedVars, historyVars, queryVars, envVars, timeVars>>

RefreshHoldings == {Holding(u, s, 1, 10000) : u \in UserIds, s \in Symbols}

InitRefresh ==
    /\ InitScheduler /\ InitRefreshJob /\ InitHistoryJob /\ InitQuery
    /\ stocks \in HoldingTables(RefreshHoldings)
    /\ stock_prices = <<>>
    /\ portfolio_history = <<>>

NextRefresh ==
    \/ RefreshStart
    \/ \E ok \in BOOLEAN : RefreshEnumReturn(ok)
    \/ \E i \in 1..MaxHoldings, r \in FetchOutcomes : FetchReturn(i, r)
    \/ \E i \in 1..MaxHoldings, ok \in BOOLEAN : SelectReturn(i, ok)
    \/ \E i \in 1..MaxHoldings, ok \in BOOLEAN : CommitReturn(i, ok)
    \/ \E i \in 1..MaxHoldings, ok \in BOOLEAN : RollbackReturn(i, ok)
    \/ GatherReturns
    \/ GatherRaises
    \/ \E ok \in BOOLEAN : RefreshClose(ok)

SpecRefresh == InitRefresh /\ [][NextRefresh]_vars


(***************************************************************************)
(* Properties of the refresh job.                                          *)
(***************************************************************************)
HeldSymbols == {stocks[i].symbol : i \in DOMAIN stocks}

\* The symbols query of the current run has returned.
Enumerated == <<"info", "Found unique stocks to update", None>> \in rlog

\* No database operation of the current run has failed: the symbols query
\* returned, no select or commit raised, close() did not raise.
NoPersistenceError ==
    /\ Enumerated
    /\ \A s \in Symbols : SaveError(s) \notin rlog
    /\ rpc # "raised"

FetchFailed(i) ==
    /\ tasks[i].pc = "done"
    /\ tasks[i].price = NoPrice
    /\ \/ <<"warning", "No price data received", tasks[i].symbol>> \in rlog
       \/ <<"error", "Error fetching price", tasks[i].symbol>> \in rlog

FetchSucceeded(i) == tasks[i].price # NoPrice

Stored(s, p) ==
    /\ HasPrice(stock_prices, s)
    /\ stock_prices[LatestRow(stock_prices, s)].price = p

\* C2: in one run of update_stock_prices the Gateway price fetch is invoked
\* exactly once for each distinct held symbol, whatever the number of users
\* and holdings naming the symbol (stated of a run whose symbols query
\* returned; never more than once, and never for a symbol nobody holds).
C2_FetchOncePerSymbol ==
    /\ \A s \in Symbols : fetchCount[s] <= 1
    /\ \A s \in Symbols \ HeldSymbols : fetchCount[s] = 0
    /\ Enumerated => \A s \in HeldSymbols : fetchCount[s] = 1

\* C2 witness: a finished run over two holdings of one symbol, of two users.
C2_Witness ==
    /\ rpc = "returned"
    /\ Enumerated
    /\ Len(stocks) = 2
    /\ stocks[1].symbol = stocks[2].symbol
    /\ stocks[1].user_id # stocks[2].user_id
    /\ fetchCount[stocks[1].symbol] = 1

\* C3: at the end of a run in which the Gateway failed for some symbols and
\* succeeded for others (and no database operation failed), the Price Store
\* holds the newly fetched price of every symbol whose fetch succeeded.
C3_SuccessfulPricesStored ==
    (rpc = "returned" /\ NoPersistenceError) =>
        \A i \in DOMAIN tasks :
            FetchSucceeded(i) => Stored(tasks[i].symbol, tasks[i].price[1])

\* C3 witness: the run ended, MSFT's fetch raised, AAPL's new price is stored.
C3_Witness ==
    /\ rpc = "returned"
    /\ NoPersistenceError
    /\ \E i, j \in DOMAIN tasks :
        /\ tasks[i].symbol = "MSFT" /\ FetchFailed(i)
        /\ <<"error", "Error fetching price", "MSFT">> \in rlog
        /\ tasks[j].symbol = "AAPL" /\ FetchSucceeded(j)
        /\ Stored("AAPL", 10)

\* The report of a run at the job boundary: its end-of-run log record.
EndOfRunReport == rlog \cap {RunCompleted, RunError}

PartialFailureRun ==
    /\ rpc = "returned"
    /\ \E i \in DOMAIN tasks : FetchFailed(i)
    /\ \E j \in DOMAIN tasks :
           FetchSucceeded(j) /\ Stored(tasks[j].symbol, tasks[j].price[1])

AllSucceededRun ==
    /\ rpc = "returned"
    /\ tasks # <<>>
    /\ \A j \in DOMAIN tasks :
           FetchSucceeded(j) /\ Stored(tasks[j].symbol, tasks[j].price[1])
    /\ NoPersistenceError

\* The end-of-run report of a run in which every symbol succeeded.
AllSucceededReport == {RunCompleted}

AllSucceededReportIsCompleted == AllSucceededRun => EndOfRunReport = AllSucceededReport

\* C4: a run in which at least one fetch failed and at least one succeeded is
\* reported as partially failed: its end-of-run report differs from the
\* report of a run in which every symbol succeeded.
C4_PartialFailureReported ==
    PartialFailureRun => EndOfRunReport # AllSucceededReport


(***************************************************************************)
(* The refresh job of tasks.py: synchronous, one pass over every holding   *)
(* (not over distinct symbols) on a session with autoflush disabled, one   *)
(* commit at the end.  No statement of the pass is flushed before the      *)
(* commit, so each query for the existing row of a symbol sees the table   *)
(* as it was when the run began.                                           *)
(***************************************************************************)
\* What fetch_stock_price / the inline fetch of tasks.py can hand back.
FetchResults == {fetch_stock_price(r) : r \in FetchOutcomes}

\* .first() of an unordered query: any one row of the symbol, 0 for no row.
FirstRowChoices(table) ==
    [Symbols -> 0..Len(table)] \cap
        {f \in [Symbols -> 0..Len(table)] :
            \A s \in Symbols :
                IF RowsOf(table, s) = {} THEN f[s] = 0 ELSE f[s] \in RowsOf(table, s)}

\* The changes the pass leaves in the session: per holding, in order, an
\* overwrite of the existing row's price or a new row.
RECURSIVE TasksPass(_, _, _, _)
TasksPass(hs, prices, first, k) ==
    IF k > Len(hs) THEN <<>>
    ELSE LET s == hs[k].symbol
             rest == TasksPass(hs, prices, first, k + 1)
         IN  IF prices[k] = NoPrice THEN rest
             ELSE IF first[s] # 0
                  THEN <<[op |-> "update", row |-> first[s],
                          symbol |-> s, price |-> prices[k][1]]>> \o rest
                  ELSE <<[op |-> "insert", row |-> 0,
                          symbol |-> s, price |-> prices[k][1]]>> \o rest

\* The commit of the pass: tasks.py overwrites only the price column of an
\* existing row; a new row gets its timestamp when it is inserted.
RECURSIVE TasksApply(_, _)
TasksApply(ops, table) ==
    IF ops = <<>> THEN Normalise(table)
    ELSE LET o == Head(ops)
         IN  TasksApply(Tail(ops),
                 IF o.op = "insert"
                 THEN Append(table, StockPrice(o.symbol, o.price, MaxTs(table) + 1))
                 ELSE [table EXCEPT ![o.row].price = o.price])

\* One run of update_stock_prices of tasks.py: the Gateway answers holding k
\* with prices[k]; the final commit returns (ok) or raises and is rolled back.
TasksUpdateStockPrices(prices, first, ok) ==
    /\ stocks # <<>>
    /\ stock_prices' =
           IF ok THEN TasksApply(TasksPass(stocks, prices, first, 1), stock_prices)
           ELSE stock_prices
    /\ UNCHANGED <<stocks, portfolio_history, schedVars, refreshVars,
                   historyVars, queryVars, envVars, timeVars>>

(***************************************************************************)
(* The synchronous query path: get_user_portfolio.                         *)
(***************************************************************************)
PortfolioItem(h, price, value, gain) ==
    [symbol |-> h.symbol, quantity |-> h.quantity,
     purchase_price |-> h.purchase_price, current_price |-> price,
     current_value |-> value, gain_loss |-> gain]

\* user.stocks: the holdings of user u, in id order.
UserStocks(u) == SelectSeq(stocks, LAMBDA h : h.user_id = u)

\* get_user_with_stocks(user_id, db): the user with the holdings loaded, as
\* <<user>>, or <<>> for Python's None.
get_user_with_stocks(u) ==
    IF u \in UserIds THEN <<[id |-> u, stocks |-> UserStocks(u)]>> ELSE <<>>

\* get_latest_stock_prices(symbols, db): symbol -> latest price, a symbol
\* without a snapshot absent (here NoPrice, what dict.get returns for it).
get_latest_stock_prices(symbols, table) ==
    [s \in Symbols |->
        IF s \in symbols /\ HasPrice(table, s)
        THEN Some(table[LatestRow(table, s)].price)
        ELSE NoPrice]

\* Python truth value of an Optional[float]: None and 0.0 are false.
Truthy(price) == price # NoPrice /\ price[1] # 0

\* The item build_portfolio_response makes of holding h at price p.
MakeItem(h, p) ==
    LET current_value == Round3(h.quantity * p)
        gain_loss == Round3(current_value - h.quantity * h.purchase_price)
    IN  PortfolioItem(h, p, current_value, gain_loss)

\* build_portfolio_response(stocks, price_data) of portfolio_service.py
build_portfolio_response(hs, price_data) ==
    LET priced == SelectSeq(hs, LAMBDA h : Truthy(price_data[h.symbol]))
    IN  [i \in 1..Len(priced) |-> MakeItem(priced[i], price_data[priced[i].symbol][1])]

\* A response; seen is the Price Store the call read.
HTTP(status) ==
    [status |-> status, user_id |-> 0, portfolio |-> <<>>, by |-> "error", seen |-> <<>>]

\* get_user_portfolio of services/portfolio_service.py for current user u;
\* ok: the database queries return.
GetUserPortfolio(u, ok) ==
    /\ LET found == get_user_with_stocks(u)
       IN  resp' =
             IF ~ok \/ found = <<>> THEN HTTP(500)
             ELSE LET user == found[1]
                      symbols == {user.stocks[i].symbol : i \in DOMAIN user.stocks}
                      price_data == get_latest_stock_prices(symbols, stock_prices)
                  IN  [status |-> 200, user_id |-> user.id,
                       portfolio |-> build_portfolio_response(user.stocks, price_data),
                       by |-> "portfolio_service", seen |-> stock_prices]
    /\ req' = Via(Request("get_user_portfolio", u, None, 0, 0), "portfolio_service", ok)
    /\ UNCHANGED <<tableVars, schedVars, refreshVars, historyVars, envVars, timeVars>>

\* The loop of get_user_portfolio of api/routes.py: per holding the latest
\* StockPrice row is queried; a row, whatever its price, makes an item.
RoutesPortfolio(hs, table) ==
    LET priced == SelectSeq(hs, LAMBDA h : HasPrice(table, h.symbol))
    IN  [i \in 1..Len(priced) |->
            MakeItem(priced[i], table[LatestRow(table, priced[i].symbol)].price)]

\* get_user_portfolio of api/routes.py for current user u.
RoutesResponse(u, ok) ==
    IF ~ok THEN HTTP(500)
    ELSE IF u \notin UserIds THEN HTTP(404)
    ELSE [status |-> 200, user_id |-> u,
          portfolio |-> RoutesPortfolio(UserStocks(u), stock_prices),
          by |-> "api/routes", seen |-> stock_prices]

RoutesGetUserPortfolio(u, ok) ==
    /\ resp' = RoutesResponse(u, ok)
    /\ req' = Via(Request("get_user_portfolio", u, None, 0, 0), "api/routes", ok)
    /\ UNCHANGED <<tableVars, schedVars, refreshVars, historyVars, envVars, timeVars>>

\* The loop of get_user_portfolio of fastapi_app/routes.py, the router of
\* app.py: the same queries, the values are not rounded.
LegacyPortfolio(hs, table) ==
    LET priced == SelectSeq(hs, LAMBDA h : HasPrice(table, h.symbol))
    IN  [i \in 1..Len(priced) |->
            LET h == priced[i]
                price == table[LatestRow(table, h.symbol)].price
                current_value == h.quantity * price
            IN  PortfolioItem(h, price, current_value,
                              current_value - h.quantity * h.purchase_price)]

\* get_user_portfolio of fastapi_app/routes.py for current user u.
LegacyGetUserPortfolio(u, ok) ==
    /\ resp' =
         IF ~ok THEN HTTP(500)
         ELSE IF u \notin UserIds THEN HTTP(404)
         ELSE [status |-> 200, user_id |-> u,
               portfolio |-> LegacyPortfolio(UserStocks(u), stock_prices),
               by |-> "routes", seen |-> stock_prices]
    /\ req' = Via(Request("get_user_portfolio", u, None, 0, 0), "routes", ok)
    /\ UNCHANGED <<tableVars, schedVars, refreshVars, historyVars, envVars, timeVars>>

\* The (quantity, purchase_price) pairs of the holdings of the model.
Lots == {<<1, 5>>, <<15, 9>>}
LotHoldings == {Holding(u, s, l[1], l[2]) : u \in UserIds, s \in Symbols, l \in Lots}

InitPortfolio ==
    /\ InitScheduler /\ InitRefreshJob /\ InitHistoryJob /\ InitQuery
    /\ stocks \in HoldingTables(LotHoldings)
    /\ stock_prices = <<>>
    /\ portfolio_history = <<>>

NextPortfolio ==
    \/ \E prices \in [DOMAIN stocks -> FetchResults],
          first \in FirstRowChoices(stock_prices), ok \in BOOLEAN :
           TasksUpdateStockPrices(prices, first, ok)
    \/ \E u \in UserIds, ok \in BOOLEAN : GetUserPortfolio(u, ok)
    \/ \E u \in UserIds, ok \in BOOLEAN : RoutesGetUserPortfolio(u, ok)
    \/ \E u \in UserIds, ok \in BOOLEAN : LegacyGetUserPortfolio(u, ok)

SpecPortfolio == InitPortfolio /\ [][NextPortfolio]_vars


(***************************************************************************)
(* get_user_portfolio: what a 200 response holds, against the Price Store  *)
(* the call read (resp.seen).                                              *)
(***************************************************************************)
Answered == resp.status = 200

\* The latest stored price of symbol s in the store the call read.
SeenPrice(s) == resp.seen[LatestRow(resp.seen, s)].price

\* Item it is the item of holding h with the values of the formula.
ItemOf(it, h) ==
    /\ it.symbol = h.symbol
    /\ it.quantity = h.quantity
    /\ it.purchase_price = h.purchase_price
    /\ it.current_value = Round3(h.quantity * SeenPrice(h.symbol))
    /\ it.gain_loss = Round3(it.current_value - h.quantity * h.purchase_price)

\* The holdings of the answered user that the rounding variants list: the
\* service variant when the price is one Python takes for true (not 0.0),
\* the api/routes variant whatever the price.
Listed(h) ==
    /\ HasPrice(resp.seen, h.symbol)
    /\ resp.by \in {"portfolio_service", "api/routes"}
    /\ resp.by = "portfolio_service" => SeenPrice(h.symbol) # 0

\* Every listed holding has its item, with the values of the formula.
ListedItemValues ==
    Answered =>
        \A h \in Range(UserStocks(resp.user_id)) :
            Listed(h) => \E i \in DOMAIN resp.portfolio : ItemOf(resp.portfolio[i], h)

\* C5: for every holding of the user whose symbol has a known price P in the
\* Price Store, with quantity Q, the response of get_user_portfolio has an
\* item with current_value = round(Q*P, 3) and gain_loss = round(current_value
\* - Q*purchase_price, 3), the gain computed from the rounded current_value.
C5_ItemPerKnownPrice ==
    Answered =>
        \A h \in Range(UserStocks(resp.user_id)) :
            HasPrice(resp.seen, h.symbol) =>
                \E i \in DOMAIN resp.portfolio : ItemOf(resp.portfolio[i], h)

\* The holdings of the answered user that have a snapshot in the store read.
SnapshotHoldings ==
    SelectSeq(UserStocks(resp.user_id), LAMBDA h : HasPrice(resp.seen, h.symbol))

\* C6: build_portfolio_response yields exactly one item per holding whose
\* symbol has a snapshot in the Price Store, for every stored price value,
\* zero included, and no item for a holding without a snapshot.
C6_OneItemPerSnapshot ==
    Answered /\ resp.by = "portfolio_service" =>
        /\ Len(resp.portfolio) = Len(SnapshotHoldings)
        /\ \A i \in DOMAIN resp.portfolio :
               i <= Len(SnapshotHoldings) =>
                   resp.portfolio[i].symbol = SnapshotHoldings[i].symbol

\* The api/routes variant tests the row, not the price: there the statement
\* of C6 holds.
RoutesOneItemPerSnapshot ==
    Answered /\ resp.by = "api/routes" =>
        /\ Len(resp.portfolio) = Len(SnapshotHoldings)
        /\ \A i \in DOMAIN resp.portfolio :
               ItemOf(resp.portfolio[i], SnapshotHoldings[i])

\* A holding with a stored price of 0.0 was answered by the service variant.
ZeroPriceAnswered ==
    /\ Answered /\ resp.by = "portfolio_service"
    /\ \E h \in Range(UserStocks(resp.user_id)) :
           HasPrice(resp.seen, h.symbol) /\ SeenPrice(h.symbol) = 0


(***************************************************************************)
(* The history job: update_portfolio_history of                            *)
(* services/portfolio_service.py.  One session, one commit at the end.     *)
(* SpecHistory follows one run of the job over a Price Store filled before *)
(* the run starts.                                                         *)
(***************************************************************************)
\* The Gateway for the analytics: per symbol, the dividend series and the
\* daily history of one year are there ("data"), empty, or the call raises.
SeriesOutcomes == {"data", "empty", "error"}

\* The sum of the dividend series of a symbol, per share.
DividendSum(s) == IF s = "AAPL" THEN 55 ELSE 120

\* The annualised volatility of a symbol: returns.std() * 252**0.5.
Volatility(s) == IF s = "AAPL" THEN 2500 ELSE 4100

\* select(Stock, StockPrice).outerjoin(StockPrice, Stock.symbol ==
\* StockPrice.symbol).filter(Stock.user_id == u): one row per pair of a
\* holding and a price row of its symbol, the holding alone (price <<>>)
\* when the symbol has no price row.
RECURSIVE JoinRows(_, _, _)
JoinRows(hs, table, k) ==
    IF k > Len(hs) THEN <<>>
    ELSE LET h == hs[k]
             rows == SelectSeq(table, LAMBDA r : r.symbol = h.symbol)
         IN  (IF rows = <<>>
              THEN <<[stock |-> h, price |-> <<>>]>>
              ELSE [i \in 1..Len(rows) |-> [stock |-> h, price |-> <<rows[i]>>]])
             \o JoinRows(hs, table, k + 1)

portfolio_items(u, table) == JoinRows(UserStocks(u), table, 1)

SumOver(items, F(_)) == SeqSum([i \in 1..Len(items) |-> F(items[i])])

\* A variant that values a row without a price at its purchase price.
PortfolioValue_AtCost(items) ==
    SumOver(items, LAMBDA it :
        IF it.price # <<>> THEN it.stock.quantity * it.price[1].price
        ELSE it.stock.quantity * it.stock.purchase_price)

\* sum(stock.quantity * price.price for stock, price in items if price)
PortfolioValue(items) ==
    SumOver(items, LAMBDA it :
        IF it.price # <<>> THEN it.stock.quantity * it.price[1].price ELSE 0)

\* sum(stock.quantity * stock.purchase_price for stock, _ in items)
InvestmentValue(items) ==
    SumOver(items, LAMBDA it : it.stock.quantity * it.stock.purchase_price)

\* calculate_total_dividends(user): over user.stocks, a holding whose
\* dividend call raises or is empty adds nothing.
\* A variant: one failing or empty dividend fetch leaves the total at 0.
calculate_total_dividends_AllOrNothing(hs, dv) ==
    IF \E i \in DOMAIN hs : dv[hs[i].symbol] # "data" THEN 0
    ELSE SumOver(hs, LAMBDA h : DividendSum(h.symbol) * h.quantity)

calculate_total_dividends(hs, dv) ==
    SumOver(hs, LAMBDA h :
        IF dv[h.symbol] = "data" THEN DividendSum(h.symbol) * h.quantity ELSE 0)

\* calculate_portfolio_volatility(portfolio_items): the value-weighted sum
\* of the volatilities of the priced rows that have a daily history.
calculate_portfolio_volatility(items, hv) ==
    LET total_value == PortfolioValue(items)
        weighted == SumOver(items, LAMBDA it :
            IF it.price # <<>> /\ hv[it.stock.symbol] = "data"
            THEN it.stock.quantity * it.price[1].price * Volatility(it.stock.symbol)
            ELSE 0)
    IN  IF items = <<>> \/ total_value = 0 THEN 0
        ELSE 100 * RoundHalfEven(weighted, 100 * total_value)

\* PortfolioHistory(...) as built in the loop; the timestamp is set when
\* the row is inserted.
HistoryEntry(u, items, dividends, volatility) ==
    LET portfolio_value == PortfolioValue(items)
        investment_value == InvestmentValue(items)
    IN  [user_id |-> u, ts |-> 0,
         portfolio_value |-> Round2(portfolio_value),
         volatility |-> volatility,
         profit |-> Round2(portfolio_value - investment_value),
         investment_value |-> Round2(investment_value),
         asset_value |-> Round2(portfolio_value),
         dividends |-> Round2(dividends)]

HistoryEnded == hpc \in {"returned", "raised"}

\* The scheduler calls update_portfolio_history(): a session is opened and
\* the query for the users is sent.
HistoryStart ==
    /\ hpc = "idle"
    /\ hpc' = "enum"
    /\ hlog' = {<<"info", "Starting portfolio history update", 0>>}
    /\ UNCHANGED <<husers, hidx, hpending, hseen,
                   tableVars, schedVars, refreshVars, queryVars, envVars, timeVars>>

\* The users query returns every user, or raises (outer except: rollback).
HistoryEnumReturn(ok) ==
    /\ hpc = "enum"
    /\ IF ok
       THEN /\ husers' = [i \in 1..NumUsers |-> i]
            /\ hidx' = 1
            /\ hlog' = hlog \cup {<<"info", "Updating portfolio history for users", 0>>}
            /\ hpc' = "loop"
       ELSE /\ hlog' = hlog \cup {<<"error", "Error during portfolio history update", 0>>}
            /\ hpc' = "rollback"
            /\ UNCHANGED <<husers, hidx>>
    /\ UNCHANGED <<hpending, hseen, tableVars, schedVars, refreshVars, queryVars, envVars, timeVars>>

\* A variant without the "if not portfolio_items: continue".
UserOutcome_NoSkip(items, qok) ==
    IF ~qok THEN "raised" ELSE "added"

\* How the turn of a user ends: the join query raised (inner except), the
\* user has no portfolio items (continue), or an entry is added.
UserOutcome(items, qok) ==
    IF ~qok THEN "raised"
    ELSE IF items = <<>> THEN "skipped"
    ELSE "added"

UserLog(u, outcome) ==
    IF outcome = "raised" THEN <<"error", "Error updating portfolio history for user", u>>
    ELSE IF outcome = "skipped" THEN <<"warning", "No portfolio items found for user", u>>
    ELSE <<"info", "Added portfolio history entry for user", u>>

\* A variant without the inner try/except: the exception of a user's turn
\* reaches the outer handler.
HistoryUser_NoInnerTry(qok, dv, hv) ==
    /\ hpc = "loop"
    /\ hidx <= Len(husers)
    /\ LET u == husers[hidx]
           items == portfolio_items(u, stock_prices)
           outcome == UserOutcome(items, qok)
       IN  /\ hpending' =
                 IF outcome = "added"
                 THEN Append(hpending,
                          HistoryEntry(u, items,
                              calculate_total_dividends(UserStocks(u), dv),
                              Round2(calculate_portfolio_volatility(items, hv))))
                 ELSE hpending
           /\ hlog' = hlog \cup
                 {IF outcome = "raised"
                  THEN <<"error", "Error during portfolio history update", 0>>
                  ELSE UserLog(u, outcome)}
           /\ hseen' = Append(hseen, [user_id |-> u, outcome |-> outcome])
           /\ hpc' = IF outcome = "raised" THEN "rollback" ELSE hpc
    /\ hidx' = hidx + 1
    /\ UNCHANGED <<husers, tableVars, schedVars, refreshVars, queryVars, envVars, timeVars>>

\* One turn of the loop over the users: the join query of user husers[hidx]
\* returns (qok) or raises; dv and hv are the Gateway's answers per symbol
\* for the dividends and the daily history.
HistoryUser(qok, dv, hv) ==
    /\ hpc = "loop"
    /\ hidx <= Len(husers)
    /\ LET u == husers[hidx]
           items == portfolio_items(u, stock_prices)
           outcome == UserOutcome(items, qok)
       IN  /\ hpending' =
                 IF outcome = "added"
                 THEN Append(hpending,
                          HistoryEntry(u, items,
                              calculate_total_dividends(UserStocks(u), dv),
                              Round2(calculate_portfolio_volatility(items, hv))))
                 ELSE hpending
           /\ hlog' = hlog \cup {UserLog(u, outcome)}
           /\ hseen' = Append(hseen, [user_id |-> u, outcome |-> outcome])
    /\ hidx' = hidx + 1
    /\ UNCHANGED <<hpc, husers, tableVars, schedVars, refreshVars, queryVars, envVars, timeVars>>

\* The rows of the session get their timestamps as they are inserted.
RECURSIVE Stamped(_, _)
Stamped(entries, t) ==
    IF entries = <<>> THEN <<>>
    ELSE <<[Head(entries) EXCEPT !.ts = t]>> \o Stamped(Tail(entries), t + 1)

\* After the loop the commit is sent.
\* A variant: the commit of the history job is sent only while the session
\* of the refresh job holds no uncommitted change.
HistoryCommitSent_WaitsForRefresh ==
    /\ hpc = "loop"
    /\ hidx > Len(husers)
    /\ pending = <<>>
    /\ hpc' = "commit"
    /\ UNCHANGED <<husers, hidx, hpending, hlog, hseen,
                   tableVars, schedVars, refreshVars, queryVars, envVars, timeVars>>

HistoryCommitSent ==
    /\ hpc = "loop"
    /\ hidx > Len(husers)
    /\ hpc' = "commit"
    /\ UNCHANGED <<husers, hidx, hpending, hlog, hseen,
                   tableVars, schedVars, refreshVars, queryVars, envVars, timeVars>>

\* A variant: a commit that raises has already written the first entry.
HistoryCommitReturn_Partial(ok) ==
    /\ hpc = "commit"
    /\ IF ok
       THEN /\ portfolio_history' =
                   portfolio_history \o Stamped(hpending, MaxTs(portfolio_history) + 1)
            /\ hpending' = <<>>
            /\ hlog' = hlog \cup
                   {<<"info", "Portfolio history update completed successfully", 0>>}
            /\ hpc' = "closing"
       ELSE /\ hlog' = hlog \cup {<<"error", "Error during portfolio history update", 0>>}
            /\ hpc' = "rollback"
            /\ portfolio_history' =
                   portfolio_history \o
                       Stamped(SubSeq(hpending, 1, IF hpending = <<>> THEN 0 ELSE 1),
                               MaxTs(portfolio_history) + 1)
            /\ UNCHANGED hpending
    /\ UNCHANGED <<husers, hidx, hseen, stocks, stock_prices,
                   schedVars, refreshVars, queryVars, envVars, timeVars>>

\* The commit returns: every added entry is in the table; or it raises
\* (outer except: rollback).
HistoryCommitReturn(ok) ==
    /\ hpc = "commit"
    /\ IF ok
       THEN /\ portfolio_history' =
                   portfolio_history \o Stamped(hpending, MaxTs(portfolio_history) + 1)
            /\ hpending' = <<>>
            /\ hlog' = hlog \cup
                   {<<"info", "Portfolio history update completed successfully", 0>>}
            /\ hpc' = "closing"
       ELSE /\ hlog' = hlog \cup {<<"error", "Error during portfolio history update", 0>>}
            /\ hpc' = "rollback"
            /\ UNCHANGED <<portfolio_history, hpending>>
    /\ UNCHANGED <<husers, hidx, hseen, stocks, stock_prices,
                   schedVars, refreshVars, queryVars, envVars, timeVars>>

\* A variant: the rollback also removes the rows of earlier commits.
HistoryRollbackReturn_Truncate(ok) ==
    /\ hpc = "rollback"
    /\ hpending' = <<>>
    /\ portfolio_history' = <<>>
    /\ hpc' = IF ok THEN "closing" ELSE "closing_raised"
    /\ UNCHANGED <<husers, hidx, hlog, hseen, stocks, stock_prices,
                   schedVars, refreshVars, queryVars, envVars, timeVars>>

\* The rollback of the outer except returns, or raises out of the handler;
\* either way the finally clause closes the session next.
HistoryRollbackReturn(ok) ==
    /\ hpc = "rollback"
    /\ hpending' = <<>>
    /\ hpc' = IF ok THEN "closing" ELSE "closing_raised"
    /\ UNCHANGED <<husers, hidx, hlog, hseen,
                   tableVars, schedVars, refreshVars, queryVars, envVars, timeVars>>

\* finally: db.close() returns or raises; the job returns to the scheduler
\* or leaves through the exception.
HistoryClose(ok) ==
    /\ hpc \in {"closing", "closing_raised"}
    /\ hpc' = IF ok /\ hpc = "closing" THEN "returned" ELSE "raised"
    /\ hpending' = <<>>
    /\ UNCHANGED <<husers, hidx, hlog, hseen,
                   tableVars, schedVars, refreshVars, queryVars, envVars, timeVars>>

\* The Price Store is filled by the refresh job of tasks.py before the run.
FillPriceStore(prices, first, ok) ==
    /\ hpc = "idle"
    /\ TasksUpdateStockPrices(prices, first, ok)

\* The symbols the turn of the current user asks the Gateway about.
HistorySymbols ==
    IF hpc = "loop" /\ hidx <= Len(husers)
    THEN {h.symbol : h \in Range(UserStocks(husers[hidx]))}
    ELSE {}

HistoryHoldings ==
    {Holding(u, "AAPL", 7, 12) : u \in UserIds} \cup
    {Holding(u, "MSFT", 15, 9) : u \in UserIds}

InitHistory ==
    /\ InitScheduler /\ InitRefreshJob /\ InitHistoryJob /\ InitQuery
    /\ stocks \in HoldingTables(HistoryHoldings)
    /\ stock_prices = <<>>
    /\ portfolio_history = <<>>

NextHistory ==
    \/ \E prices \in [DOMAIN stocks -> FetchResults],
          first \in FirstRowChoices(stock_prices), ok \in BOOLEAN :
           FillPriceStore(prices, first, ok)
    \/ HistoryStart
    \/ \E ok \in BOOLEAN : HistoryEnumReturn(ok)
    \/ \E qok \in BOOLEAN, dv \in [HistorySymbols -> SeriesOutcomes],
          hv \in [HistorySymbols -> SeriesOutcomes] : HistoryUser(qok, dv, hv)
    \/ HistoryCommitSent
    \/ \E ok \in BOOLEAN : HistoryCommitReturn(ok)
    \/ \E ok \in BOOLEAN : HistoryRollbackReturn(ok)
    \/ \E ok \in BOOLEAN : HistoryClose(ok)

SpecHistory == InitHistory /\ [][NextHistory]_vars


(***************************************************************************)
(* One run of the history job.                                             *)
(***************************************************************************)
\* The final commit of the run returned.
HistoryCommitted ==
    <<"info", "Portfolio history update completed successfully", 0>> \in hlog

\* The loop over the users is over (the run is at its commit or behind it).
LoopLeft == hpc \in {"commit", "rollback", "closing", "closing_raised",
                     "returned", "raised"} /\ husers # <<>>

\* The records of user u: committed ones, and the ones the session holds.
CommittedRecords(u) == SelectSeq(portfolio_history, LAMBDA e : e.user_id = u)
SessionRecords(u) == SelectSeq(hpending, LAMBDA e : e.user_id = u)

\* How the turn of user u ended, "none" before the turn.
TurnOf(u) ==
    IF \E k \in DOMAIN hseen : hseen[k].user_id = u
    THEN hseen[CHOOSE k \in DOMAIN hseen : hseen[k].user_id = u].outcome
    ELSE "none"

HasHoldings(u) == UserStocks(u) # <<>>
Unpriced(u) == \A h \in Range(UserStocks(u)) : ~HasPrice(stock_prices, h.symbol)

\* C7: in a run of the history job a user with zero holdings gets no history
\* record, and processing continues with the remaining users: the turn of
\* such a user ends the loop for nobody, every user has had a turn when the
\* loop is left.
C7_NoHoldingsNoRecord ==
    \A u \in UserIds :
        ~HasHoldings(u) =>
            /\ CommittedRecords(u) = <<>> /\ SessionRecords(u) = <<>>
            /\ TurnOf(u) \in {"none", "skipped", "raised"}
            /\ TurnOf(u) # "none" /\ LoopLeft =>
                   \A v \in UserIds : TurnOf(v) # "none"

\* A user without holdings was skipped first, a later user got a record,
\* and the run committed.
C7_Witness ==
    /\ hpc = "returned" /\ HistoryCommitted
    /\ ~HasHoldings(1) /\ TurnOf(1) = "skipped"
    /\ Len(CommittedRecords(2)) = 1

\* C8: in a run of the history job whose users query and final commit
\* return, a user who has holdings but no Price Store entry for any of their
\* symbols, and whose own join query returns, gets exactly one record, with
\* portfolio_value = 0 and volatility = 0.
C8_UnpricedUserZeroRecord ==
    \A u \in UserIds :
        HasHoldings(u) /\ Unpriced(u) =>
            /\ \A e \in Range(CommittedRecords(u)) \cup Range(SessionRecords(u)) :
                   e.portfolio_value = 0 /\ e.volatility = 0
            /\ Len(CommittedRecords(u)) + Len(SessionRecords(u)) <= 1
            /\ HistoryCommitted /\ TurnOf(u) # "raised" =>
                   Len(CommittedRecords(u)) = 1

\* A run committed the record of a user with holdings and no price, while
\* the symbol of another user has a price.
C8_Witness ==
    /\ hpc = "returned" /\ HistoryCommitted
    /\ \E u \in UserIds :
           /\ HasHoldings(u) /\ Unpriced(u)
           /\ Len(CommittedRecords(u)) = 1
           /\ CommittedRecords(u)[1].portfolio_value = 0
           /\ CommittedRecords(u)[1].volatility = 0
    /\ stock_prices # <<>>

\* sum of quantity * purchase_price over the holdings of u, each once.
CostBasis(u) ==
    SeqSum([i \in 1..Len(UserStocks(u)) |->
                UserStocks(u)[i].quantity * UserStocks(u)[i].purchase_price])

\* C9: in every record appended by the history job, investment_value equals
\* the sum of quantity * purchase_price over all of the user's holdings,
\* each holding counted exactly once, whether or not and however many times
\* its symbol appears in the Price Store.
C9_InvestmentValueCountsOnce ==
    \A e \in Range(portfolio_history) \cup Range(hpending) :
        e.investment_value = Round2(CostBasis(e.user_id))

\* The symbols of the Price Store have one row each.
NoDuplicateSnapshots ==
    \A i, j \in DOMAIN stock_prices :
        stock_prices[i].symbol = stock_prices[j].symbol => i = j

\* Without a symbol stored twice the records count each holding once.
InvestmentValueWithoutDuplicates ==
    NoDuplicateSnapshots => C9_InvestmentValueCountsOnce

\* C10: if the turn of one user raises, the error is logged and caught per
\* user: the loop goes on to the remaining users, and when the users query
\* and the final commit return, every other user with holdings whose own
\* turn does not raise has their record committed in the same run.
C10_RaisingUserIsolated ==
    \A v \in UserIds :
        TurnOf(v) = "raised" =>
            /\ UserLog(v, "raised") \in hlog
            /\ CommittedRecords(v) = <<>> /\ SessionRecords(v) = <<>>
            /\ hpc = "loop" \/ LoopLeft
            /\ LoopLeft => \A u \in UserIds : TurnOf(u) # "none"
            /\ HistoryCommitted =>
                   \A u \in UserIds \ {v} :
                       HasHoldings(u) /\ TurnOf(u) # "raised" =>
                           Len(CommittedRecords(u)) = 1

\* The turn of user 1 raised, user 2 has holdings and their record is
\* committed by the same run.
C10_Witness ==
    /\ hpc = "returned" /\ HistoryCommitted
    /\ HasHoldings(1) /\ TurnOf(1) = "raised"
    /\ HasHoldings(2) /\ Len(CommittedRecords(2)) = 1

InitSched ==
    /\ InitScheduler /\ InitRefreshJob /\ InitHistoryJob /\ InitQuery
    /\ InitEmptyTables

NextScheduler ==
    \/ \E j \in JobIds : Fire(j)
    \/ \E j \in JobIds : JobReturns(j)
    \/ \E j \in JobIds : JobRaises(j)

SpecScheduler == InitSched /\ [][NextScheduler]_vars

\* C1: for each job id at most one instance of the job is running at every
\* moment; a trigger fire that arrives while an instance of the same job is
\* Running starts no second instance (the fire is skipped).
C1_AtMostOneInstance ==
    \A j \in JobIds : instances[j] <= 1

\* C1 witness: a fire of a job arrived while its instance was running and was
\* refused, the instance still running, the other job running at the same time.
C1_Witness ==
    /\ instances["update_stock_prices"] = 1
    /\ skipped["update_stock_prices"] >= 1
    /\ instances["update_portfolio_history"] = 1
    /\ skipped["update_portfolio_history"] >= 1

(***************************************************************************)
(* Runs of the history job one after the other.  SpecHistoryRuns lets the  *)
(* scheduler call update_portfolio_history again after a run has ended,    *)
(* with runs of the refresh job of tasks.py in between.  The Gateway has   *)
(* the dividends and the daily history of every symbol.                    *)
(***************************************************************************)
MaxRecords == 3     \* a run starts only while the table has fewer records

\* The scheduler calls update_portfolio_history() again: a new session, the
\* locals of the previous call are gone.
HistoryStartAgain ==
    /\ HistoryEnded
    /\ Len(portfolio_history) < MaxRecords
    /\ hpc' = "enum"
    /\ husers' = <<>>
    /\ hidx' = 0
    /\ hpending' = <<>>
    /\ hseen' = <<>>
    /\ hlog' = {<<"info", "Starting portfolio history update", 0>>}
    /\ UNCHANGED <<tableVars, schedVars, refreshVars, queryVars, envVars, timeVars>>

\* The holdings: user 1 holds AAPL, and user 2 may hold it as well.
RunsTables ==
    {<<Holding(1, "AAPL", 7, 12)>>,
     <<Holding(1, "AAPL", 7, 12), Holding(2, "AAPL", 7, 12)>>}

InitHistoryRuns ==
    /\ InitScheduler /\ InitRefreshJob /\ InitHistoryJob /\ InitQuery
    /\ stocks \in RunsTables
    /\ stock_prices = <<>>
    /\ portfolio_history = <<>>

\* A run of the refresh job of tasks.py between two runs of the history job.
RefreshBetweenRuns(prices, first, ok) ==
    /\ hpc = "idle" \/ HistoryEnded
    /\ TasksUpdateStockPrices(prices, first, ok)

NextHistoryRuns ==
    \/ \E prices \in [DOMAIN stocks -> FetchResults],
          first \in FirstRowChoices(stock_prices), ok \in BOOLEAN :
           RefreshBetweenRuns(prices, first, ok)
    \/ HistoryStart
    \/ HistoryStartAgain
    \/ \E ok \in BOOLEAN : HistoryEnumReturn(ok)
    \/ \E qok \in BOOLEAN, dv \in [HistorySymbols -> {"data"}],
          hv \in [HistorySymbols -> {"data"}] : HistoryUser(qok, dv, hv)
    \/ HistoryCommitSent
    \/ \E ok \in BOOLEAN : HistoryCommitReturn(ok)
    \/ \E ok \in BOOLEAN : HistoryRollbackReturn(ok)
    \/ \E ok \in BOOLEAN : HistoryClose(ok)

SpecHistoryRuns == InitHistoryRuns /\ [][NextHistoryRuns]_vars

\* The run as a whole threw: the outer handler logged the error.
HistoryThrew ==
    <<"error", "Error during portfolio history update", 0>> \in hlog

IsPrefix(s, t) == Len(s) <= Len(t) /\ SubSeq(t, 1, Len(s)) = s

\* The users whose turn in the current run added an entry, in turn order.
AddedUsers ==
    LET added == SelectSeq(hseen, LAMBDA e : e.outcome = "added")
    IN  [i \in 1..Len(added) |-> added[i].user_id]

\* C11: the history job commits all records of a run in one commit at the
\* end of the run.  The table changes only in the step in which the final
\* commit returns, and then by exactly one record per user whose turn added
\* an entry, behind the records of the earlier runs, which stay as they
\* are; a run that threw (the users query or the final commit failed) has
\* not committed and changes the table in no step.
C11_OneCommitPerRun ==
    [][/\ ~(HistoryThrew /\ HistoryCommitted)
       /\ HistoryThrew' => portfolio_history' = portfolio_history
       /\ portfolio_history' # portfolio_history =>
              /\ hpc = "commit" /\ HistoryCommitted' /\ ~HistoryThrew'
              /\ IsPrefix(portfolio_history, portfolio_history')
              /\ [i \in 1..(Len(portfolio_history') - Len(portfolio_history)) |->
                     portfolio_history'[Len(portfolio_history) + i].user_id]
                 = AddedUsers]_vars

\* A run whose final commit failed after an entry was added has ended, and
\* the table holds the record of an earlier run and nothing else.
C11_Witness ==
    /\ HistoryEnded /\ HistoryThrew
    /\ AddedUsers # <<>>
    /\ Len(portfolio_history) = 1

\* C12: the portfolio history is append-only: in every step of the refresh
\* job, the history job and the queries, every committed record stays in
\* its place with unchanged fields.
C12_AppendOnly ==
    [][IsPrefix(portfolio_history, portfolio_history')]_vars

\* Two runs have committed a record of the same user, the refresh job has
\* written prices, and the run after them has added an entry and failed.
C12_Witness ==
    /\ hpc = "rollback" /\ hpending # <<>>
    /\ Len(portfolio_history) >= 2
    /\ portfolio_history[1].user_id = portfolio_history[2].user_id
    /\ portfolio_history[1].ts < portfolio_history[2].ts
    /\ stock_prices # <<>>

(***************************************************************************)
(* The history query: get_portfolio_history of portfolio_service.py.       *)
(* Time is counted in days.  SpecHistoryQuery starts from a history table  *)
(* as runs of the history job leave it (rows in the order of their         *)
(* timestamps) and answers queries.                                        *)
(***************************************************************************)
\* A row of "portfolio_history" of user u written at time t.
HistoryRow(u, t) ==
    [user_id |-> u, ts |-> t, portfolio_value |-> 100 * u, volatility |-> 0,
     profit |-> 0, investment_value |-> 0, asset_value |-> 100 * u,
     dividends |-> 0]

\* get_date_range(days) called at time now: <<start_date, end_date>>.
get_date_range(days, now) == <<now - days, now>>

RECURSIVE InsertByTs(_, _)
InsertByTs(row, sorted) ==
    IF sorted = <<>> THEN <<row>>
    ELSE IF row.ts < Head(sorted).ts THEN <<row>> \o sorted
    ELSE <<Head(sorted)>> \o InsertByTs(row, Tail(sorted))

\* ORDER BY timestamp ASC over the rows in the order the scan yields them.
RECURSIVE OrderByTs(_)
OrderByTs(rows) ==
    IF rows = <<>> THEN <<>>
    ELSE InsertByTs(Head(rows), OrderByTs(Tail(rows)))

Reverse(rows) == [i \in 1..Len(rows) |-> rows[Len(rows) + 1 - i]]

\* The rows a scan of the table yields: in insertion order or, the order of
\* a scan being the database's choice, in the opposite order.
Scan(table, rev) == IF rev THEN Reverse(table) ELSE table

\* A variant without the filter on the user.
fetch_portfolio_history_AnyUser(u, start_date, end_date, rows) ==
    OrderByTs(SelectSeq(rows, LAMBDA h :
        h.ts >= start_date /\ h.ts <= end_date))

\* fetch_portfolio_history(user_id, start_date, end_date, db)
fetch_portfolio_history(u, start_date, end_date, rows) ==
    OrderByTs(SelectSeq(rows, LAMBDA h :
        h.user_id = u /\ h.ts >= start_date /\ h.ts <= end_date))

\* build_portfolio_history_response(history)
build_portfolio_history_response(h) ==
    [timestamp |-> h.ts, portfolio_value |-> h.portfolio_value,
     volatility |-> h.volatility, profit |-> h.profit,
     investment_value |-> h.investment_value, asset_value |-> h.asset_value,
     dividends |-> h.dividends]

\* get_portfolio_history(current_user, db, days) called at time now; ok: the
\* query returns, otherwise the except clause answers 500.
GetPortfolioHistory(u, days, now, rev, ok) ==
    /\ req' = Via(Request("get_portfolio_history", u, None, days, now),
                   "portfolio_service", ok)
    /\ resp' =
         IF ~ok THEN HTTP(500)
         ELSE LET range == get_date_range(days, now)
                  history == fetch_portfolio_history(u, range[1], range[2],
                                                     Scan(portfolio_history, rev))
              IN  [status |-> 200, user_id |-> u,
                   portfolio |-> [i \in 1..Len(history) |->
                                      build_portfolio_history_response(history[i])],
                   by |-> "get_portfolio_history", seen |-> portfolio_history]
    /\ UNCHANGED <<tableVars, schedVars, refreshVars, historyVars, envVars, timeVars>>

QueryTimes == 0..MaxRecords

\* The tables of at most MaxRecords rows, timestamps in insertion order.
HistoryTables ==
    UNION {{t \in [1..n -> {HistoryRow(u, d) : u \in UserIds, d \in QueryTimes}] :
                \A i \in 1..n : i < n => t[i].ts <= t[i + 1].ts} :
           n \in 0..MaxRecords}

InitHistoryQuery ==
    /\ InitScheduler /\ InitRefreshJob /\ InitHistoryJob /\ InitQuery
    /\ stocks = <<>>
    /\ stock_prices = <<>>
    /\ portfolio_history \in HistoryTables

\* One query per table.
NextHistoryQuery ==
    \E u \in UserIds, days \in QueryTimes, now \in QueryTimes,
       rev \in BOOLEAN, ok \in BOOLEAN :
        req.op = None /\ GetPortfolioHistory(u, days, now, rev, ok)

SpecHistoryQuery == InitHistoryQuery /\ [][NextHistoryQuery]_vars

HistoryAnswered == resp.status = 200 /\ resp.by = "get_portfolio_history"

\* The rows of the table the query read that are of the asked user and in
\* the window [now - days, now].
InWindow == {i \in DOMAIN resp.seen :
                /\ resp.seen[i].user_id = req.user
                /\ resp.seen[i].ts >= req.now - req.days
                /\ resp.seen[i].ts <= req.now}

\* C13: get_portfolio_history(user, days) returns exactly the history
\* records of that user whose timestamp lies in [now - days, now], each
\* once, ordered by timestamp ascending.
C13_HistoryWindow ==
    HistoryAnswered =>
        /\ Len(resp.portfolio) = Cardinality(InWindow)
        /\ \A k \in DOMAIN resp.portfolio :
               /\ \E i \in InWindow :
                      resp.portfolio[k] = build_portfolio_history_response(resp.seen[i])
               /\ Cardinality({j \in DOMAIN resp.portfolio :
                                   resp.portfolio[j] = resp.portfolio[k]})
                  = Cardinality({i \in InWindow :
                                   build_portfolio_history_response(resp.seen[i])
                                       = resp.portfolio[k]})
               /\ k < Len(resp.portfolio) =>
                      resp.portfolio[k].timestamp <= resp.portfolio[k + 1].timestamp

\* Three records of a user, one before the window and two in it at
\* different times, and a record of another user in the window: the answer
\* has the two.
C13_Witness ==
    /\ HistoryAnswered
    /\ Len(resp.portfolio) = 2
    /\ resp.portfolio[1].timestamp < resp.portfolio[2].timestamp
    /\ Len(resp.seen) = 3
    /\ \E i \in DOMAIN resp.seen :
           resp.seen[i].user_id = req.user /\ resp.seen[i].ts < req.now - req.days

(***************************************************************************)
(* The refresh job run again and again against a provider whose data does  *)
(* not change: gateway fixes, per symbol, what every fetch of the symbol   *)
(* returns.  The holdings are not edited.  The database may fail at any    *)
(* operation, as in NextRefresh.                                           *)
(***************************************************************************)
\* The answers of the provider: a close, an empty frame, an exception.
ProviderAnswers ==
    {[kind |-> "close", close |-> MaxClose],
     [kind |-> "empty", close |-> 0],
     [kind |-> "error", close |-> 0]}

\* The holdings: one user holding one symbol or both.
TwiceTables ==
    {<<Holding(1, "AAPL", 1, 10000)>>,
     <<Holding(1, "AAPL", 1, 10000), Holding(1, "MSFT", 1, 10000)>>}

\* The Price Store before the first run: per symbol no row, or the one row
\* _save_stock_price keeps, holding an older price.
PriorStores ==
    {<<>>,
     <<StockPrice("AAPL", 0, 1)>>,
     <<StockPrice("MSFT", 20, 1)>>,
     <<StockPrice("AAPL", 0, 1), StockPrice("MSFT", 20, 1)>>}

\* What a reader of the Price Store can tell apart, timestamps aside: which
\* symbols have a row and the latest price of each.
Observable(table) ==
    [s \in Symbols |->
        IF HasPrice(table, s) THEN Some(table[LatestRow(table, s)].price)
        ELSE NoPrice]

\* A reader looks at the Price Store after a run that met no database
\* failure has returned.
Observe ==
    /\ rpc = "returned"
    /\ TasksQuiet
    /\ NoPersistenceError
    /\ observed' = <<Observable(stock_prices)>>
    /\ UNCHANGED <<gateway, client, tableVars, schedVars, refreshVars, historyVars, queryVars,
                   timeVars>>

InitRefreshTwice ==
    /\ InitScheduler /\ InitRefreshJob /\ InitHistoryJob /\ InitResponse
    /\ gateway \in [Symbols -> ProviderAnswers]
    /\ observed = <<>>
    /\ InitClient
    /\ settings = Settings(1, 1) /\ InitUntimed
    /\ stocks \in TwiceTables
    /\ stock_prices \in PriorStores
    /\ portfolio_history = <<>>

NextRefreshTwice ==
    \/ RefreshStart
    \/ \E ok \in BOOLEAN : RefreshEnumReturn(ok)
    \/ \E i \in 1..MaxHoldings : i \in DOMAIN tasks /\ FetchReturn(i, gateway[tasks[i].symbol])
    \/ \E i \in 1..MaxHoldings, ok \in BOOLEAN : SelectReturn(i, ok)
    \/ \E i \in 1..MaxHoldings, ok \in BOOLEAN : CommitReturn(i, ok)
    \/ \E i \in 1..MaxHoldings, ok \in BOOLEAN : RollbackReturn(i, ok)
    \/ GatherReturns
    \/ GatherRaises
    \/ \E ok \in BOOLEAN : RefreshClose(ok)
    \/ Observe

SpecRefreshTwice == InitRefreshTwice /\ [][NextRefreshTwice]_vars

\* C14: once a run of the refresh job that met no database failure has
\* returned, no later run over the same holdings and the same provider data
\* changes what the Price Store shows: the same symbols have a row and each
\* has the same latest price, at every moment of every later run.
C14_RefreshIdempotent ==
    observed # <<>> => Observable(stock_prices) = observed[1]

\* A run started after the observation has committed the prices of both
\* symbols, by an update of the row, and is about to close its session.
C14_Witness ==
    /\ observed # <<>>
    /\ rpc = "closing"
    /\ updated_symbols = Symbols
    /\ \A s \in Symbols : /\ <<"info", "Updated price", s>> \in rlog
                          /\ observed[1][s] = Some(10)
    /\ Len(stock_prices) = 2

(***************************************************************************)
(* The life cycle of a job under the scheduler.  The interval trigger of a *)
(* job keeps firing, and a submitted run ends, by returning or by raising: *)
(* the executor reports EVENT_JOB_EXECUTED or EVENT_JOB_ERROR and releases *)
(* the instance.                                                           *)
(***************************************************************************)
JobEnds(j) == JobReturns(j) \/ JobRaises(j)

SpecSchedulerFair ==
    /\ InitSched
    /\ [][NextScheduler]_vars
    /\ \A j \in JobIds : WF_vars(Fire(j)) /\ WF_vars(JobEnds(j))

Idle(j) == instances[j] = 0
Running(j) == instances[j] = 1

\* C15: a job goes from Idle to Running only by a fire of its trigger that
\* finds it Idle; a run that ends, by completion or by exception, leaves the
\* job Idle; every Running job is eventually Idle again; and after a run
\* that raised the trigger of the job fires again.
C15_JobLifeCycle ==
    /\ [][\A j \in JobIds :
            /\ instances'[j] > instances[j] =>
                   /\ Idle(j) /\ Running(j)'
                   /\ fires'[j] = fires[j] + 1
                   /\ lastEvent'[j] = "submitted"
            /\ (lastEvent'[j] # lastEvent[j] /\ lastEvent'[j] \in {"executed", "error"}) =>
                   Running(j) /\ Idle(j)']_vars
    /\ \A j \in JobIds : Running(j) ~> Idle(j)
    /\ \A j \in JobIds : \A n \in 0..(MaxFires - 1) :
            (lastEvent[j] = "error" /\ fires[j] = n) ~> (fires[j] = n + 1)

\* A run of the refresh job has raised after an earlier run of the job, the
\* job is Idle again, and the history job is Running.
C15_Witness ==
    /\ lastEvent["update_stock_prices"] = "error"
    /\ Idle("update_stock_prices")
    /\ fires["update_stock_prices"] = 2
    /\ skipped["update_stock_prices"] = 0
    /\ Running("update_portfolio_history")

(***************************************************************************)
(* The scheduler in time.  The two interval options are read from the      *)
(* environment; the jobs are added with an IntervalTrigger each, and the   *)
(* scheduler wakes up at or after the next fire time of a job: late when   *)
(* the event loop was busy.  At a wake-up the fire times of the job that   *)
(* have passed are collected, coalesced, and handed to the executor, which *)
(* runs the job unless the fire time is older than misfire_grace_time.     *)
(***************************************************************************)
MaxInterval == 3
MaxClock == 6

Intervals == 1..MaxInterval

\* scheduler_service.py: the module constant.
MISFIRE_GRACE_TIME_SECONDS(stock, history) == (stock + stock) \div 2

\* backend/shared/config.py: Settings.compute_derived_settings.
compute_derived_settings(values) ==
    [values EXCEPT
        !.MISFIRE_GRACE_TIME_SECONDS =
            (values.STOCK_PRICES_INTERVAL_UPDATES_SECONDS
                + values.STOCK_PRICES_INTERVAL_UPDATES_SECONDS) \div 2,
        !.by = "backend/shared/config"]

\* shared/config.py: Settings.compute_derived_settings.
shared_compute_derived_settings(values) ==
    [values EXCEPT
        !.MISFIRE_GRACE_TIME_SECONDS =
            (values.STOCK_PRICES_INTERVAL_UPDATES_SECONDS
                + values.PORTFOLIO_HISTORY_UPDATE_INTERVAL_SECONDS) \div 2,
        !.by = "shared/config"]

\* Settings() is built: the validator fills in the derived options.
LoadSettings(backend) ==
    /\ settings.by = None
    /\ \A j \in JobIds : ~jobconf[j].added
    /\ settings' = IF backend THEN compute_derived_settings(settings)
                   ELSE shared_compute_derived_settings(settings)
    /\ UNCHANGED <<jobconf, clock, next_run_time, executed,
                   tableVars, schedVars, refreshVars, historyVars, queryVars, envVars>>

\* IntervalTrigger(seconds=...) of the job.
Interval(j) ==
    IF j = "update_stock_prices" THEN settings.STOCK_PRICES_INTERVAL_UPDATES_SECONDS
    ELSE settings.PORTFOLIO_HISTORY_UPDATE_INTERVAL_SECONDS

\* The job defaults of the scheduler, for the options add_job is not given.
default_misfire_grace_time == 1
default_coalesce == TRUE

\* scheduler_service.configure_scheduler: both jobs with coalesce=True and
\* misfire_grace_time=MISFIRE_GRACE_TIME_SECONDS.
ConfigureScheduler ==
    /\ \A j \in JobIds : ~jobconf[j].added
    /\ jobconf' = [j \in JobIds |->
                     JobOptions(TRUE, Interval(j), TRUE,
                         MISFIRE_GRACE_TIME_SECONDS(
                             settings.STOCK_PRICES_INTERVAL_UPDATES_SECONDS,
                             settings.PORTFOLIO_HISTORY_UPDATE_INTERVAL_SECONDS))]
    /\ next_run_time' = [j \in JobIds |-> clock + Interval(j)]
    /\ UNCHANGED <<settings, clock, executed,
                   tableVars, schedVars, refreshVars, historyVars, queryVars, envVars>>

\* stock_service.py: both jobs with max_instances=1 and nothing else.
AddJobs ==
    /\ \A j \in JobIds : ~jobconf[j].added
    /\ jobconf' = [j \in JobIds |->
                     JobOptions(TRUE, Interval(j), default_coalesce,
                                default_misfire_grace_time)]
    /\ next_run_time' = [j \in JobIds |-> clock + Interval(j)]
    /\ UNCHANGED <<settings, clock, executed,
                   tableVars, schedVars, refreshVars, historyVars, queryVars, envVars>>

SetMax(S) == CHOOSE x \in S : \A y \in S : y <= x

\* The fire times of job j that have passed at time t and were not handed
\* to the executor yet.
RunTimes(j, t) ==
    {r \in next_run_time[j]..t : (r - next_run_time[j]) % jobconf[j].interval = 0}

\* A variant: every fire time that has passed is kept.
Coalesce_Off(run_times, coalesce) == run_times

\* coalesce=True keeps the latest of the fire times that have passed.
Coalesce(run_times, coalesce) ==
    IF coalesce THEN {SetMax(run_times)} ELSE run_times

\* The scheduler wakes up at time t with job j due.  A job whose instance
\* is running is not submitted (max_instances); otherwise the executor runs
\* the job for the fire times not older than misfire_grace_time and reports
\* the others as missed.  The trigger moves on from the latest fire time.
ProcessJob(j, t) ==
    /\ jobconf[j].added
    /\ t \in clock..MaxClock
    /\ next_run_time[j] <= t
    /\ LET run_times == Coalesce(RunTimes(j, t), jobconf[j].coalesce)
           ran == {r \in run_times : t - r <= jobconf[j].misfire_grace_time}
       IN  /\ clock' = t
           /\ fires' = [fires EXCEPT ![j] = @ + Cardinality(RunTimes(j, t))]
           /\ next_run_time' = [next_run_time EXCEPT
                                   ![j] = SetMax(RunTimes(j, t)) + jobconf[j].interval]
           /\ IF instances[j] >= MaxInstances(j)
              THEN /\ skipped' = [skipped EXCEPT ![j] = @ + 1]
                   /\ lastEvent' = [lastEvent EXCEPT ![j] = "max_instances"]
                   /\ UNCHANGED <<instances, executed>>
              ELSE IF ran = {}
              THEN /\ lastEvent' = [lastEvent EXCEPT ![j] = "missed"]
                   /\ UNCHANGED <<instances, skipped, executed>>
              ELSE /\ instances' = [instances EXCEPT ![j] = @ + 1]
                   /\ lastEvent' = [lastEvent EXCEPT ![j] = "submitted"]
                   /\ executed' = [executed EXCEPT ![j] = ran]
                   /\ UNCHANGED skipped
    /\ UNCHANGED <<settings, jobconf,
                   tableVars, refreshVars, historyVars, queryVars, envVars>>

InitTimed ==
    /\ InitScheduler /\ InitRefreshJob /\ InitHistoryJob /\ InitResponse
    /\ InitEmptyTables
    /\ gateway = [s \in Symbols |-> [kind |-> "empty", close |-> 0]]
    /\ observed = <<>>
    /\ InitClient
    /\ settings \in {Settings(s, h) : s \in Intervals, h \in Intervals}
    /\ InitUntimed

NextTimed ==
    \/ \E backend \in BOOLEAN : LoadSettings(backend)
    \/ ConfigureScheduler
    \/ AddJobs
    \/ \E j \in JobIds, t \in 0..MaxClock : ProcessJob(j, t)
    \/ \E j \in JobIds : JobReturns(j)
    \/ \E j \in JobIds : JobRaises(j)

SpecTimed == InitTimed /\ [][NextTimed]_vars

\* The fire times of job j from its next fire time up to time t, and those
\* of them which are not older than the grace period of the job at time t.
Passed(j, t) ==
    {r \in 0..MaxClock :
        /\ next_run_time[j] <= r /\ r <= t
        /\ (r - next_run_time[j]) % jobconf[j].interval = 0}
WithinGrace(j, t) == {r \in Passed(j, t) : t - r <= jobconf[j].misfire_grace_time}

\* C16: at a wake-up of the scheduler a job is run at most once, however many
\* of its fire times have passed; it is run exactly once when the job is Idle
\* and a fire time that passed is within the grace period; a fire time older
\* than the grace period is not run, and a fire time the trigger has moved
\* past is never run later.
C16_CoalescedOrDropped ==
    [][\A j \in JobIds :
          LET new == IF executed'[j] # executed[j] THEN executed'[j] ELSE {}
          IN  /\ new \subseteq {r \in 0..MaxClock : r >= next_run_time[j]}
              /\ (jobconf[j].added /\ next_run_time'[j] # next_run_time[j]) =>
                    /\ Cardinality(new) <= 1
                    /\ new \subseteq WithinGrace(j, clock')
                    /\ (Idle(j) /\ WithinGrace(j, clock') # {}) => Cardinality(new) = 1
                    /\ (Idle(j) /\ WithinGrace(j, clock') = {}) => lastEvent'[j] = "missed"]_vars

\* The refresh job was woken up late with two fire times passed, both within
\* the grace period, and was run once, for the later one; the history job
\* was woken up later than its grace period and its fire time was dropped.
C16_Witness ==
    /\ fires["update_stock_prices"] = 2
    /\ executed["update_stock_prices"] = {2}
    /\ jobconf["update_stock_prices"].misfire_grace_time = 1
    /\ lastEvent["update_portfolio_history"] = "missed"
    /\ fires["update_portfolio_history"] = 1
    /\ executed["update_portfolio_history"] = {}

\* C17: the grace period the jobs of the scheduler are added with is the
\* average of the two configured intervals.
C17_GraceIsAverage ==
    \A j \in JobIds :
        jobconf[j].added =>
            jobconf[j].misfire_grace_time =
                (settings.STOCK_PRICES_INTERVAL_UPDATES_SECONDS
                    + settings.PORTFOLIO_HISTORY_UPDATE_INTERVAL_SECONDS) \div 2

(***************************************************************************)
(* The two jobs at the same time.  Both are coroutines of one event loop,  *)
(* each with a session of its own; they interleave at every await.  The    *)
(* refresh job writes stock_prices, the history job reads stock_prices and *)
(* writes portfolio_history; neither takes a lock.  The event loop runs    *)
(* every coroutine that is ready, and an awaited Gateway or database call  *)
(* returns or raises.                                                      *)
(***************************************************************************)
RefreshRunning == rpc \notin {"idle", "returned", "raised"}
HistoryRunning == hpc \notin {"idle", "returned", "raised"}

\* A step of a run of the refresh job.
RefreshStep ==
    \/ \E ok \in BOOLEAN : RefreshEnumReturn(ok)
    \/ \E i \in 1..MaxHoldings, r \in ProviderAnswers : FetchReturn(i, r)
    \/ \E i \in 1..MaxHoldings, ok \in BOOLEAN : SelectReturn(i, ok)
    \/ \E i \in 1..MaxHoldings, ok \in BOOLEAN : CommitReturn(i, ok)
    \/ \E i \in 1..MaxHoldings, ok \in BOOLEAN : RollbackReturn(i, ok)
    \/ GatherReturns
    \/ GatherRaises
    \/ \E ok \in BOOLEAN : RefreshClose(ok)

\* A step of a run of the history job.
HistoryStep ==
    \/ \E ok \in BOOLEAN : HistoryEnumReturn(ok)
    \/ \E qok \in BOOLEAN, dv \in [HistorySymbols -> {"data"}],
          hv \in [HistorySymbols -> {"data"}] : HistoryUser(qok, dv, hv)
    \/ HistoryCommitSent
    \/ \E ok \in BOOLEAN : HistoryCommitReturn(ok)
    \/ \E ok \in BOOLEAN : HistoryRollbackReturn(ok)
    \/ \E ok \in BOOLEAN : HistoryClose(ok)

InitBothJobs ==
    /\ InitScheduler /\ InitRefreshJob /\ InitHistoryJob /\ InitQuery
    /\ stocks \in RunsTables
    /\ stock_prices = <<>>
    /\ portfolio_history = <<>>

NextBothJobs ==
    \/ RefreshStart
    \/ RefreshStep
    \/ HistoryStart
    \/ HistoryStep

SpecBothJobs ==
    /\ InitBothJobs
    /\ [][NextBothJobs]_vars
    /\ WF_vars(RefreshStep)
    /\ WF_vars(HistoryStep)

\* C18: while the two jobs run at the same time neither waits for the
\* other: a run that has not ended always has a step it can take, whatever
\* the other job is doing, and every run of either job eventually ends.
C18_BothJobsFinish ==
    /\ [](RefreshRunning => ENABLED RefreshStep)
    /\ [](HistoryRunning => ENABLED HistoryStep)
    /\ RefreshRunning ~> RefreshEnded
    /\ HistoryRunning ~> HistoryEnded

\* Both jobs are in the middle of a run, each with uncommitted changes in
\* its session: the refresh job a price, the history job a record.
C18_Witness ==
    /\ rpc = "gather" /\ pending # <<>>
    /\ hpc = "loop" /\ hpending # <<>>
    /\ hidx > Len(husers)

(***************************************************************************)
(* Errors on the query path.  The provider answers per symbol as gateway   *)
(* says; the caller may name a user that has no row (NumUsers + 1).  A     *)
(* handler body either returns a response or raises; the handlers wrap     *)
(* their body in try / except Exception.                                   *)
(***************************************************************************)
\* The outcome of a handler body: a response returned, or an exception
\* raised; an HTTPException carries its status code, any other exception 0.
Returned(r) == [raised |-> FALSE, status_code |-> 0, value |-> r]
Raised(code) == [raised |-> TRUE, status_code |-> code, value |-> HTTP(code)]

\* except Exception as e: raise HTTPException(status_code=500, ...).
\* HTTPException is an Exception, so the clause catches it as well.
ExceptException(outcome) ==
    IF outcome.raised THEN HTTP(500) ELSE outcome.value

StockResponse(s, p, by) ==
    [status |-> 200, user_id |-> 0,
     portfolio |-> <<[symbol |-> s, price |-> p]>>, by |-> by, seen |-> <<>>]

\* The body of get_stock_data and of get_stock_price: ticker.history raises,
\* or the frame is empty and 404 is raised, or the rounded close is returned.
StockDataBody(s, r, by) ==
    IF r.kind = "error" THEN Raised(0)
    ELSE IF r.kind = "empty" THEN Raised(404)
    ELSE Returned(StockResponse(s, Round3(r.close), by))

\* A variant: get_stock_data also writes the price it fetched to the Price
\* Store.
GetStockData_SavesPrice(s) ==
    /\ resp' = ExceptException(StockDataBody(s, gateway[s], "get_stock_data"))
    /\ req' = Via(Request("get_stock_data", 0, s, 0, 0), "stock_service", TRUE)
    /\ stock_prices' =
           IF gateway[s].kind = "close"
           THEN Normalise(Append(stock_prices,
                    StockPrice(s, Round3(gateway[s].close), MaxTs(stock_prices) + 1)))
           ELSE stock_prices
    /\ UNCHANGED <<stocks, portfolio_history,
                   schedVars, refreshVars, historyVars, envVars, timeVars>>

\* stock_service.get_stock_data(symbol)
GetStockData(s) ==
    /\ resp' = ExceptException(StockDataBody(s, gateway[s], "get_stock_data"))
    /\ req' = Via(Request("get_stock_data", 0, s, 0, 0), "stock_service", TRUE)
    /\ UNCHANGED <<tableVars, schedVars, refreshVars, historyVars, envVars, timeVars>>

\* api/routes.get_stock_price(symbol)
GetStockPrice(s) ==
    /\ resp' = ExceptException(StockDataBody(s, gateway[s], "get_stock_price"))
    /\ req' = Via(Request("get_stock_price", 0, s, 0, 0), "api/routes", TRUE)
    /\ UNCHANGED <<tableVars, schedVars, refreshVars, historyVars, envVars, timeVars>>

\* The body of analyze_stock: as above, then the dividends are fetched,
\* which may raise, and the analysis is returned.
AnalyzeBody(s, r, dividends_ok) ==
    IF r.kind = "error" THEN Raised(0)
    ELSE IF r.kind = "empty" THEN Raised(404)
    ELSE IF ~dividends_ok THEN Raised(0)
    ELSE Returned(StockResponse(s, r.close, "analyze_stock"))

\* stock_service.analyze_stock(symbol, quantity, purchase_price)
AnalyzeStock(s, dividends_ok) ==
    /\ resp' = ExceptException(AnalyzeBody(s, gateway[s], dividends_ok))
    /\ req' = Via(Request("analyze_stock", 0, s, 0, 0), "stock_service", TRUE)
    /\ UNCHANGED <<tableVars, schedVars, refreshVars, historyVars, envVars, timeVars>>

\* The callers: the users with a row and one without.
Callers == 1..(NumUsers + 1)

InitErrors ==
    /\ InitScheduler /\ InitRefreshJob /\ InitHistoryJob /\ InitResponse
    /\ gateway \in [Symbols -> ProviderAnswers]
    /\ observed = <<>>
    /\ InitClient
    /\ settings = Settings(1, 1) /\ InitUntimed
    /\ stocks \in RunsTables
    /\ stock_prices \in PriorStores
    /\ portfolio_history = <<>>

NextErrors ==
    \/ \E s \in Symbols : GetStockData(s)
    \/ \E s \in Symbols : GetStockPrice(s)
    \/ \E s \in Symbols, dividends_ok \in BOOLEAN : AnalyzeStock(s, dividends_ok)
    \/ \E u \in Callers, ok \in BOOLEAN : GetUserPortfolio(u, ok)
    \/ \E u \in Callers, ok \in BOOLEAN : RoutesGetUserPortfolio(u, ok)

SpecErrors == InitErrors /\ [][NextErrors]_vars

\* The request named a symbol the provider has no data for, or a user that
\* has no row, and nothing else failed.
NotFoundRequest ==
    \/ /\ req.op \in {"get_stock_data", "get_stock_price", "analyze_stock"}
       /\ gateway[req.symbol].kind = "empty"
    \/ /\ req.op = "get_user_portfolio"
       /\ req.db
       /\ req.user \notin UserIds

\* C19: a request for a symbol without provider data or for a user that
\* does not exist is answered 404, and a 404 is answered to such a request
\* only, by get_stock_data, analyze_stock, get_stock_price and
\* get_user_portfolio.
C19_NotFoundIs404 ==
    /\ NotFoundRequest => resp.status = 404
    /\ resp.status = 404 => NotFoundRequest

\* C20: a run of either job that ends has returned to the scheduler: no
\* failure of the Gateway or of the database, at a query, a commit, a
\* rollback or a close, makes update_stock_prices or
\* update_portfolio_history raise.
C20_JobsNeverRaise ==
    /\ RefreshEnded => rpc = "returned"
    /\ HistoryEnded => hpc = "returned"

(***************************************************************************)
(* The frontend.  fetch_portfolio(token) sends GET /portfolio to the       *)
(* backend, where get_user_portfolio of api/routes.py answers.  The        *)
(* request may fail before any answer arrives (requests.get raises a       *)
(* RequestException), or the answer has an error status and                *)
(* raise_for_status() raises HTTPError, which is a RequestException.       *)
(***************************************************************************)
NetworkOutcomes == {"answered", "ConnectionError", "Timeout"}

\* The try body of fetch_portfolio: the failure of the request, if any, and
\* the JSON body otherwise.
FetchPortfolioBody(net, response) ==
    IF net # "answered" THEN CallResult("fetch_portfolio", net, TRUE, <<>>)
    ELSE IF response.status >= 400
    THEN CallResult("fetch_portfolio", "HTTPError", TRUE, <<>>)
    ELSE CallResult("fetch_portfolio", None, FALSE,
                    <<[user_id |-> response.user_id, portfolio |-> response.portfolio]>>)

\* except requests.RequestException as e: the error is logged and shown,
\* and None is returned.
ExceptRequestException(outcome) ==
    IF outcome.raised THEN [outcome EXCEPT !.raised = FALSE, !.value = <<>>]
    ELSE outcome

\* fetch_portfolio(token) of the frontend, the token being that of user u.
FetchPortfolio(u, net, ok) ==
    /\ client' = ExceptRequestException(FetchPortfolioBody(net, RoutesResponse(u, ok)))
    /\ IF net = "answered"
       THEN /\ resp' = RoutesResponse(u, ok)
            /\ req' = Via(Request("get_user_portfolio", u, None, 0, 0), "api/routes", ok)
       ELSE UNCHANGED <<resp, req>>
    /\ UNCHANGED <<gateway, observed,
                   tableVars, schedVars, refreshVars, historyVars, timeVars>>

InitFrontend ==
    /\ InitScheduler /\ InitRefreshJob /\ InitHistoryJob /\ InitQuery
    /\ stocks \in HoldingTables(LotHoldings)
    /\ stock_prices \in PriorStores
    /\ portfolio_history = <<>>

NextFrontend ==
    \E u \in Callers, net \in NetworkOutcomes, ok \in BOOLEAN : FetchPortfolio(u, net, ok)

SpecFrontend == InitFrontend /\ [][NextFrontend]_vars

\* C21: when the HTTP GET under fetch_portfolio fails with a
\* RequestException, fetch_portfolio raises to its caller and returns no
\* value.
C21_RequestFailurePropagates ==
    (client.call = "fetch_portfolio" /\ client.failure # None) => client.raised

(***************************************************************************)
(* asyncio.gather over a list of symbols in which a symbol may occur more  *)
(* than once.  In update_stock_prices the list is the answer of a DISTINCT *)
(* query; here it is any list, to see what the dedup test of               *)
(* update_stock_price does for a repeated symbol.  gather starts every     *)
(* coroutine before any of them is resumed, so each runs its dedup test    *)
(* and suspends in fetch_stock_price before any has finished.              *)
(***************************************************************************)
SymbolLists ==
    UNION {[1..n -> Symbols] : n \in 1..MaxHoldings}

\* asyncio.gather(*[stock_service.update_stock_price(Stock(symbol=symbol))
\*                  for symbol in stocks]) for the list syms.
GatherOver(syms) ==
    /\ rpc = "enum"
    /\ LET started == [i \in DOMAIN syms |-> StartTask(syms[i], updated_symbols)]
       IN  /\ tasks' = started
           /\ fetchCount' =
                  [s \in Symbols |->
                      fetchCount[s] + Cardinality(
                          {i \in DOMAIN started :
                              started[i].symbol = s /\ started[i].pc = "fetching"})]
    /\ rlog' = rlog \cup {<<"info", "Found unique stocks to update", None>>}
    /\ rpc' = "gather"
    /\ UNCHANGED <<updated_symbols, pending,
                   tableVars, schedVars, historyVars, queryVars, envVars, timeVars>>

InitGather ==
    /\ InitScheduler /\ InitRefreshJob /\ InitHistoryJob /\ InitQuery
    /\ InitEmptyTables

NextGather ==
    \/ RefreshStart
    \/ \E syms \in SymbolLists : GatherOver(syms)
    \/ \E i \in 1..MaxHoldings, r \in ProviderAnswers : FetchReturn(i, r)
    \/ \E i \in 1..MaxHoldings, ok \in BOOLEAN : SelectReturn(i, ok)
    \/ \E i \in 1..MaxHoldings, ok \in BOOLEAN : CommitReturn(i, ok)
    \/ \E i \in 1..MaxHoldings, ok \in BOOLEAN : RollbackReturn(i, ok)
    \/ GatherReturns
    \/ GatherRaises
    \/ \E ok \in BOOLEAN : RefreshClose(ok)

SpecGather == InitGather /\ [][NextGather]_vars

\* The symbol occurs more than once among the calls of the run.
EnumeratedTwice(s) ==
    \E i, k \in DOMAIN tasks : i # k /\ tasks[i].symbol = s /\ tasks[k].symbol = s

SaveUntroubled(i) == FetchSucceeded(i) /\ SaveError(tasks[i].symbol) \notin rlog

\* C23: when the save of one symbol fails in a refresh run, the prices of
\* the other symbols of the run, whose own saves met no failure, are in the
\* Price Store when the run has returned and its tasks have ended.
C23_WriteFailureIsolated ==
    (rpc = "returned" /\ TasksQuiet /\ Enumerated) =>
        \A i \in DOMAIN tasks :
            SaveUntroubled(i) => Stored(tasks[i].symbol, tasks[i].price[1])

(***************************************************************************)
(* Refresh runs one after the other with a database that does not fail:    *)
(* every query, select and commit returns.  The provider answers each      *)
(* fetch as it likes.                                                      *)
(***************************************************************************)
InitRefreshSound ==
    /\ InitScheduler /\ InitRefreshJob /\ InitHistoryJob /\ InitQuery
    /\ stocks \in HoldingTables(RefreshHoldings)
    /\ stock_prices = <<>>
    /\ portfolio_history = <<>>

NextRefreshSound ==
    \/ RefreshStart
    \/ RefreshEnumReturn(TRUE)
    \/ \E i \in 1..MaxHoldings, r \in FetchOutcomes : FetchReturn(i, r)
    \/ \E i \in 1..MaxHoldings : SelectReturn(i, TRUE)
    \/ \E i \in 1..MaxHoldings : CommitReturn(i, TRUE)
    \/ GatherReturns
    \/ RefreshClose(TRUE)

SpecRefreshSound == InitRefreshSound /\ [][NextRefreshSound]_vars

\* The task of the current run that fetched a price for symbol s.
FetchedInRun(s, p) ==
    \E i \in DOMAIN tasks : tasks[i].symbol = s /\ tasks[i].price = p /\ p # NoPrice

\* C24: the latest price of a symbol is the price of the most recent
\* successful fetch of the symbol.  The Price Store keeps one row per
\* symbol; when a run has returned, every symbol it fetched a price for
\* shows that price; and the price a symbol shows changes only to the price
\* a task of the running run fetched for it, so a symbol whose fetch fails
\* keeps the price of its last successful fetch.
C24_LatestIsLastFetched ==
    /\ [](\A s \in Symbols : Cardinality(RowsOf(stock_prices, s)) <= 1)
    /\ []((rpc = "returned" /\ TasksQuiet) =>
             \A i \in DOMAIN tasks :
                 FetchSucceeded(i) =>
                     Observable(stock_prices)[tasks[i].symbol] = tasks[i].price)
    /\ [][\A s \in Symbols :
             Observable(stock_prices')[s] # Observable(stock_prices)[s] =>
                 /\ FetchedInRun(s, Observable(stock_prices')[s])
                 /\ tasks' # tasks]_vars

\* A later run has overwritten the row of AAPL with the price it fetched,
\* while the fetch of MSFT failed in this run and MSFT shows the price an
\* earlier run stored.
C24_Witness ==
    /\ rpc = "returned" /\ TasksQuiet
    /\ <<"info", "Updated price", "AAPL">> \in rlog
    /\ Observable(stock_prices)["AAPL"] = Some(10)
    /\ \E i \in DOMAIN tasks : tasks[i].symbol = "MSFT" /\ ~FetchSucceeded(i)
    /\ Observable(stock_prices)["MSFT"] = Some(0)

(***************************************************************************)
(* Everything that reads the Price Store next to the job that writes it:   *)
(* refresh runs, a history run, and the queries get_user_portfolio,        *)
(* get_portfolio_history, get_stock_data and analyze_stock, in any order.  *)
(***************************************************************************)
\* The provider has a close for a symbol or an empty frame.
ReaderAnswers == {a \in ProviderAnswers : a.kind # "error"}

InitReaders ==
    /\ InitScheduler /\ InitRefreshJob /\ InitHistoryJob /\ InitResponse
    /\ gateway \in [Symbols -> ReaderAnswers]
    /\ observed = <<>>
    /\ InitClient
    /\ settings = Settings(1, 1) /\ InitUntimed
    /\ stocks \in RunsTables
    /\ stock_prices = <<>>
    /\ portfolio_history = <<>>

NextReaders ==
    \/ RefreshStart
    \/ RefreshEnumReturn(TRUE)
    \/ \E i \in 1..MaxHoldings : i \in DOMAIN tasks /\ FetchReturn(i, gateway[tasks[i].symbol])
    \/ \E i \in 1..MaxHoldings : SelectReturn(i, TRUE)
    \/ \E i \in 1..MaxHoldings : CommitReturn(i, TRUE)
    \/ GatherReturns
    \/ RefreshClose(TRUE)
    \/ HistoryStart
    \/ HistoryStep
    \/ \E u \in UserIds, ok \in BOOLEAN : GetUserPortfolio(u, ok)
    \/ \E u \in UserIds, ok \in BOOLEAN :
           GetPortfolioHistory(u, 1, MaxRecords, FALSE, ok)
    \/ \E s \in Symbols : GetStockData(s)
    \/ \E s \in Symbols, dividends_ok \in BOOLEAN : AnalyzeStock(s, dividends_ok)

SpecReaders == InitReaders /\ [][NextReaders]_vars

\* C25: the Price Store changes only in a commit of the refresh job: a step
\* that changes a row of stock_prices, adds one or removes one is the
\* commit of a task of update_stock_prices, and is no step of
\* get_user_portfolio, get_portfolio_history, get_stock_data,
\* analyze_stock or the history job.
C25_OnlyRefreshWrites ==
    [][stock_prices' # stock_prices =>
          /\ \E i \in DOMAIN tasks : tasks[i].pc = "committing" /\ tasks'[i].pc = "done"
          /\ UNCHANGED <<historyVars, queryVars, stocks, portfolio_history>>]_vars

\* A history run has committed a record and get_stock_data has answered
\* with a price, while the Price Store holds the row the refresh job wrote.
C25_Witness ==
    /\ hpc = "returned" /\ portfolio_history # <<>>
    /\ req.op = "get_stock_data" /\ resp.status = 200
    /\ Len(stock_prices) = 1
    /\ rpc = "returned"

\* C26: every record the history job appends satisfies, on its stored
\* fields, profit = portfolio_value - investment_value.
C26_ProfitIsDifference ==
    \A i \in DOMAIN portfolio_history :
        portfolio_history[i].profit =
            portfolio_history[i].portfolio_value - portfolio_history[i].investment_value

(***************************************************************************)
(* One run of the history job against a provider whose series are fixed    *)
(* per symbol: gateway says for each symbol whether its daily history and  *)
(* its dividends arrive, are empty, or the fetch raises.                   *)
(***************************************************************************)
\* What ticker.history(period="1y") and ticker.dividends give for symbol s.
SeriesOf(s) == IF gateway[s].kind = "close" THEN "data" ELSE gateway[s].kind

\* The Price Store of the run: a price for both symbols, or for AAPL only.
SnapshotStores ==
    {<<StockPrice("AAPL", 10, 1), StockPrice("MSFT", 10, 1)>>,
     <<StockPrice("AAPL", 10, 1)>>}

InitSnapshot ==
    /\ InitScheduler /\ InitRefreshJob /\ InitHistoryJob /\ InitResponse
    /\ gateway \in [Symbols -> ProviderAnswers]
    /\ observed = <<>>
    /\ InitClient
    /\ settings = Settings(1, 1) /\ InitUntimed
    /\ stocks \in HoldingTables(HistoryHoldings)
    /\ stock_prices \in SnapshotStores
    /\ portfolio_history = <<>>

NextSnapshot ==
    \/ HistoryStart
    \/ \E ok \in BOOLEAN : HistoryEnumReturn(ok)
    \/ \E qok \in BOOLEAN :
           HistoryUser(qok, [s \in HistorySymbols |-> SeriesOf(s)],
                            [s \in HistorySymbols |-> SeriesOf(s)])
    \/ HistoryCommitSent
    \/ \E ok \in BOOLEAN : HistoryCommitReturn(ok)
    \/ \E ok \in BOOLEAN : HistoryRollbackReturn(ok)
    \/ \E ok \in BOOLEAN : HistoryClose(ok)

SpecSnapshot == InitSnapshot /\ [][NextSnapshot]_vars

\* The quantity user u holds of symbol s, over all of u's holdings of s.
QuantityOf(u, s) ==
    SumOver(SelectSeq(stocks, LAMBDA h : h.user_id = u /\ h.symbol = s),
            LAMBDA h : h.quantity)

\* The value of u's holding of s at the stored price, 0 without a price.
ValueOf(u, s) ==
    IF HasPrice(stock_prices, s)
    THEN QuantityOf(u, s) * stock_prices[LatestRow(stock_prices, s)].price
    ELSE 0

\* What the holding of s adds to the dividends and to the weighted
\* volatility of u when its series arrive, and nothing otherwise.
DividendShare(u, s) ==
    IF SeriesOf(s) = "data" THEN DividendSum(s) * QuantityOf(u, s) ELSE 0
VolatilityShare(u, s) ==
    IF SeriesOf(s) = "data" THEN ValueOf(u, s) * Volatility(s) ELSE 0

ExpectedDividends(u) == Round2(DividendShare(u, "AAPL") + DividendShare(u, "MSFT"))
ExpectedVolatility(u) ==
    LET total == ValueOf(u, "AAPL") + ValueOf(u, "MSFT")
    IN  IF total = 0 THEN 0
        ELSE Round2(100 * RoundHalfEven(VolatilityShare(u, "AAPL") + VolatilityShare(u, "MSFT"),
                                        100 * total))

\* C27: whatever the provider does for the series of a holding, the turn of
\* a user with holdings whose database query returned adds the user's
\* record; in it a holding whose dividend fetch (daily-history fetch) failed
\* or was empty counts nothing to dividends (volatility) and each other
\* holding counts its full share.
C27_HoldingFailureIsolated ==
    \A u \in UserIds :
        /\ (HasHoldings(u) /\ TurnOf(u) \notin {"none", "raised"}) => TurnOf(u) = "added"
        /\ (TurnOf(u) = "added" /\ hpc = "loop") =>
               /\ Len(SessionRecords(u)) = 1
               /\ SessionRecords(u)[1].dividends = ExpectedDividends(u)
               /\ SessionRecords(u)[1].volatility = ExpectedVolatility(u)

\* User 1 holds both symbols, both priced; the series of MSFT failed and
\* those of AAPL arrived: the record is in the session with the dividends
\* and the volatility of AAPL alone.
C27_Witness ==
    /\ hpc = "loop"
    /\ TurnOf(1) = "added"
    /\ QuantityOf(1, "AAPL") > 0 /\ QuantityOf(1, "MSFT") > 0
    /\ Len(stock_prices) = 2
    /\ SeriesOf("AAPL") = "data" /\ SeriesOf("MSFT") = "error"
    /\ SessionRecords(1)[1].dividends = Round2(DividendSum("AAPL") * QuantityOf(1, "AAPL"))
    /\ SessionRecords(1)[1].dividends > 0
    /\ SessionRecords(1)[1].volatility > 0

\* C28: a symbol is in updated_symbols only if its fetched price was
\* committed in the run: no save of the symbol was logged as failed and
\* rolled back, and the Price Store holds the price the run fetched for it.
C28_UpdatedOnlyIfCommitted ==
    \A i \in DOMAIN tasks :
        tasks[i].symbol \in updated_symbols =>
            /\ SaveError(tasks[i].symbol) \notin rlog
            /\ FetchSucceeded(i) /\ Stored(tasks[i].symbol, tasks[i].price[1])

\* C29: after a run of the refresh job of tasks.py the Price Store holds at
\* most one StockPrice per symbol, also when several holdings share a
\* symbol that had no record before the run.
C29_OneRowPerSymbol ==
    \A s \in Symbols : Cardinality(RowsOf(stock_prices, s)) <= 1

(***************************************************************************)
(* add_stock: POST /users/{user_id}/stocks/ of api/routes.py and of the    *)
(* legacy routes.py, the same code in both.                                *)
(***************************************************************************)
RouteModules == {"api/routes", "routes"}

\* get_current_user: the user of the token, 0 for a token that names none.
CurrentUsers == 0..NumUsers

\* The StockCreate bodies: a symbol, a quantity and a purchase price.
StockCreates == {[symbol |-> s, quantity |-> 1, purchase_price |-> 5] : s \in Symbols}

\* What the database does for the handler: commit and refresh return, the
\* commit raises, or the commit returns and the refresh raises.
AddStockOutcomes == {"stored", "commit raises", "refresh raises"}

AddStockResponse(db_stock) ==
    [status |-> 200, user_id |-> db_stock.user_id, portfolio |-> <<>>,
     by |-> "add_stock", seen |-> <<db_stock>>]

AddStockRequest(module, user_id, stock, current) ==
    CalledBy(Via(Request("add_stock", user_id, stock.symbol, 0, 0), module, TRUE), current)

\* A variant without the ownership test.
AddStock_AnyUser(module, user_id, stock, current, db) ==
    LET db_stock == Holding(user_id, stock.symbol, stock.quantity, stock.purchase_price)
    IN  /\ req' = AddStockRequest(module, user_id, stock, current)
        /\ IF current = 0
           THEN resp' = HTTP(401) /\ UNCHANGED stocks
           ELSE /\ stocks' = IF db = "commit raises" THEN stocks ELSE Append(stocks, db_stock)
                /\ resp' = IF db = "stored" THEN AddStockResponse(db_stock) ELSE HTTP(500)
        /\ UNCHANGED <<stock_prices, portfolio_history,
                       schedVars, refreshVars, historyVars, envVars, timeVars>>

\* add_stock: the dependency get_current_user answers 401 before the handler
\* runs; the handler answers 403 for another user's path; else it adds the
\* Stock with user_id from the path, commits and refreshes it.
AddStock(module, user_id, stock, current, db) ==
    LET db_stock == Holding(user_id, stock.symbol, stock.quantity, stock.purchase_price)
    IN  /\ req' = AddStockRequest(module, user_id, stock, current)
        /\ IF current = 0
           THEN resp' = HTTP(401) /\ UNCHANGED stocks
           ELSE IF current # user_id
           THEN resp' = HTTP(403) /\ UNCHANGED stocks
           ELSE /\ stocks' = IF db = "commit raises" THEN stocks ELSE Append(stocks, db_stock)
                /\ resp' = IF db = "stored" THEN AddStockResponse(db_stock) ELSE HTTP(500)
        /\ UNCHANGED <<stock_prices, portfolio_history,
                       schedVars, refreshVars, historyVars, envVars, timeVars>>

InitAddStock ==
    /\ InitScheduler /\ InitRefreshJob /\ InitHistoryJob /\ InitQuery
    /\ stocks \in RunsTables \cup {<<>>}
    /\ stock_prices \in PriorStores
    /\ portfolio_history = <<>>

NextAddStock ==
    \/ \E module \in RouteModules, user_id \in UserIds, stock \in StockCreates,
          db \in AddStockOutcomes :
           Len(stocks) < MaxHoldings /\ AddStock(module, user_id, stock, user_id, db)
    \/ \E module \in RouteModules, user_id \in Callers, stock \in StockCreates,
          current \in CurrentUsers :
           current # user_id /\ AddStock(module, user_id, stock, current, "stored")
    \/ \E u \in UserIds, ok \in BOOLEAN : RoutesGetUserPortfolio(u, ok)

SpecAddStock == InitAddStock /\ [][NextAddStock]_vars

\* C30: add_stock creates a holding only for the authenticated caller: a
\* step that changes the holdings is an add_stock whose path user_id is the
\* id of the current user, and it appends one holding of that user; an
\* add_stock of an authenticated caller whose path user_id is another id is
\* answered 403 and leaves the holdings unchanged.
C30_AddStockOwnOnly ==
    [][/\ stocks' # stocks =>
              /\ req'.op = "add_stock"
              /\ req'.caller \in UserIds /\ req'.caller = req'.user
              /\ Len(stocks') = Len(stocks) + 1
              /\ SubSeq(stocks', 1, Len(stocks)) = stocks
              /\ stocks'[Len(stocks')].user_id = req'.caller
       /\ (req'.op = "add_stock" /\ req'.caller # 0 /\ req'.caller # req'.user) =>
              /\ stocks' = stocks
              /\ resp'.status = 403]_vars

\* User 1 has added a holding of its own and then posts to the path of
\* user 2: 403, and user 2 still has no holding.
C30_Witness ==
    /\ req.op = "add_stock" /\ req.caller = 1 /\ req.user = 2
    /\ resp.status = 403
    /\ Len(stocks) = 2
    /\ \A i \in DOMAIN stocks : stocks[i].user_id = 1
    /\ stocks[2].symbol = "MSFT"

====
